---- MODULE Spec2Model ----
(***************************************************************************)
(* Verification model of the data layer of the Kuru strategies dashboard:  *)
(*   src/src/lib/api.ts              fetchSharePriceHistory, fetchAprData, *)
(*                                   averageAtMostRecentTimestamp, ...     *)
(*   src/src/hooks/useSharePriceApi.ts, src/src/hooks/useMerklRewards.ts   *)
(*                                   the React data hooks                  *)
(*                                                                         *)
(* Numbers.  The code works on IEEE doubles.  The model computes the same  *)
(* expressions exactly: a Number is a fraction n/d scaled by 10^-e, kept   *)
(* in lowest terms.  parseFloat(x) / 1e18 is the fraction x/1 with e = 18; *)
(* the rounding of doubles is not modelled.                                *)
(***************************************************************************)
EXTENDS Integers, Sequences, FiniteSets, TLC

VARIABLES
    feed,       \* backend table SharePricePoint of one factory, newest row first
    hist,       \* the last fetchSharePriceHistory call: arguments, response, result
    apr,        \* the last fetchAprData call: arguments, response, result
    vaultApr,   \* the last fetchAprDataForVault call: arguments, response, result
    nav,        \* the last fetchNav call: response, result
    caller,     \* the useSharePriceHistory arguments behind the last history call
    reads,      \* what wagmi hands useVaultData: account, vault address, read results
    vaultData,  \* the VaultData useVaultData returned at the last render
    inputsFinal, \* the data hook's arguments have stopped changing
    withdrawTab, \* ActionPanel's WithdrawTab: props, state, clock, wallet calls
    depositTab, \* ActionPanel's DepositTab: props, state, wallet calls
    hookKind,   \* which data hook the component uses
    mounted,    \* the component that uses the hook is mounted
    props,      \* the hook's arguments at the last render
    refetchTrigger, \* useState(0), bumped by refetch() and by the interval
    effect,     \* the dependencies the effect last ran with, and the fetch it started
    runs,       \* one record per fetch started: its closure's `cancelled`, its timer
    ui,         \* the hook's state: data, isLoading, error
    writer      \* the fetch whose completion last wrote the hook's state (0: none)

pageVars == <<reads, vaultData, inputsFinal, withdrawTab, depositTab>>
apiVars == <<feed, hist, apr, vaultApr, nav, caller, pageVars>>
hookVars == <<hookKind, mounted, props, refetchTrigger, effect, runs, ui, writer>>
vars == <<feed, hist, apr, vaultApr, nav, caller, reads, vaultData, inputsFinal,
          withdrawTab, depositTab,
          hookKind, mounted, props, refetchTrigger,
          effect, runs, ui, writer>>

(***************************************************************************)
(* Exact arithmetic                                                        *)
(***************************************************************************)
RECURSIVE GCD(_, _)
GCD(a, b) == IF b = 0 THEN a ELSE GCD(b, a % b)

Abs(x) == IF x < 0 THEN -x ELSE x

\* the fraction n/d * 10^-e in lowest terms, d > 0
Num(n, d, e) ==
    LET g == GCD(Abs(n), Abs(d))
        s == IF d < 0 THEN -1 ELSE 1
    IN  [n |-> s * (n \div g), d |-> s * (d \div g), e |-> e]

\* parseFloat(raw) / 1eE
Scaled(raw, e) == Num(raw, 1, e)

\* a + b on Numbers of one scale
NumAdd(a, b) == Num(a.n * b.d + b.n * a.d, a.d * b.d, a.e)

\* a / k for a positive integer k
NumDiv(a, k) == Num(a.n, a.d * k, a.e)

\* the sum of a non-empty list of Numbers f[lo..hi], by halves
RECURSIVE NumSum(_, _, _)
NumSum(f, lo, hi) ==
    IF lo = hi THEN f[lo]
    ELSE LET mid == (lo + hi) \div 2
         IN  NumAdd(NumSum(f, lo, mid), NumSum(f, mid + 1, hi))

CeilDiv(a, b) == (a + b - 1) \div b

Min(a, b) == IF a < b THEN a ELSE b

(***************************************************************************)
(* Program constants, src/src/lib/api.ts:226-233                           *)
(***************************************************************************)
TARGET_CHART_POINTS == 200
SNAPSHOT_INTERVAL_SECS == 40
EST_VAULTS_PER_FACTORY == 5
MAX_FETCH_ROWS == 25000
USDC_DECIMALS == 6
PRICE_DECIMALS == 18

\* Math.floor(Date.now() / 1000) at the time of the calls (api.ts:253, 560)
Now == 1700100000

\* getTimestampDaysAgo(days), api.ts:559-561
getTimestampDaysAgo(days) == Now - days * 24 * 60 * 60

(***************************************************************************)
(* graphqlRequest, api.ts:192-222, and the fetchers' try/catch             *)
(***************************************************************************)
\* what comes back from the backend: data of the queried shape, or
\*   networkError   fetch() rejects                               (api.ts:196)
\*   httpError      a status that is not 2xx                      (api.ts:207)
\*   invalidJson    a body response.json() cannot parse           (api.ts:211)
\*   graphqlErrors  a non-empty `errors` list                     (api.ts:213)
\*   missingData    no `data` field                               (api.ts:217)
\*   malformedData  `data` without the row lists the query names
Failures ==
    {"networkError", "httpError", "invalidJson", "graphqlErrors", "missingData",
     "malformedData"}

Responses == {"data"} \cup Failures

\* graphqlRequest throws instead of returning result.data
graphqlRequestThrows(response) ==
    response \in {"networkError", "httpError", "invalidJson", "graphqlErrors",
                  "missingData"}

\* the fetcher's body throws: graphqlRequest did, or the first read of a row
\* list of `data` (data.SharePricePoint.filter, points.filter, rows[0]) is a
\* TypeError
bodyThrows(response) == graphqlRequestThrows(response) \/ response = "malformedData"

\* an exception that leaves the fetcher: its promise rejects
caught_Rethrown(value) == [outcome |-> "rejected", value |-> value]

\* catch (error) { console.error(...); return value }, api.ts:354-357, 442-445,
\* 492-495, 550-553: the promise resolves to the fetcher's empty value
caught(value) == [outcome |-> "resolved", value |-> value]

\* return value, inside the try
returned(value) == [outcome |-> "resolved", value |-> value]

(***************************************************************************)
(* fetchSharePriceHistory, api.ts:246-358                                  *)
(***************************************************************************)
\* the caller passed no limit (undefined); a limit that is passed is >= 0
NoLimit == -1

\* limit ?? Math.min(Math.ceil((now - startTs) / 40) * 5, 25000), api.ts:257-260
queryLimit(startTs, limit) ==
    IF limit # NoLimit THEN limit
    ELSE Min(CeilDiv(Now - startTs, SNAPSHOT_INTERVAL_SECS) * EST_VAULTS_PER_FACTORY,
             MAX_FETCH_ROWS)

\* the fields of a row the history and NAV queries select, api.ts:11-15, 74-78
SharePriceHistoryPoint(r) ==
    [timestamp |-> r.timestamp, tvl |-> r.tvl, sharePriceE18 |-> r.sharePriceE18]

\* HISTORY_SHARE_PRICE_AND_TVL_QUERY, api.ts:60-80: rows of the factory with
\* timestamp >= fromTimestamp, newest first, at most `limit` of them
HistoryQuery(table, fromTimestamp, limit) ==
    LET inWindow(r) == r.timestamp >= fromTimestamp
        hit == SelectSeq(table, inWindow)
    IN  [k \in 1..Min(limit, Len(hit)) |-> SharePriceHistoryPoint(hit[k])]

\* a filter that drops the rows priced 0 and keeps the negative ones
isValidPoint_NonZero(point) == point.sharePriceE18 # 0

\* Step 1, api.ts:272-274: parseFloat(point.sharePriceE18) > 0
isValidPoint(point) == point.sharePriceE18 > 0

validPoints(rows) == SelectSeq(rows, isValidPoint)

\* an entry whose count is not advanced when a second reading arrives
groupAdd_CountNotAdded(a, b) ==
    [k \in (DOMAIN a) \cup (DOMAIN b) |->
        IF k \in DOMAIN a /\ k \in DOMAIN b
        THEN [tvlSum |-> NumAdd(a[k].tvlSum, b[k].tvlSum),
              sharePriceSum |-> NumAdd(a[k].sharePriceSum, b[k].sharePriceSum),
              count |-> a[k].count]
        ELSE IF k \in DOMAIN a THEN a[k] ELSE b[k]]

\* Step 2, api.ts:283-296.  The loop adds each point to the Map entry of its
\* timestamp; addition being associative, the entries are built here by halving
\* the row list and adding the two halves' entries.
groupAdd(a, b) ==
    [k \in (DOMAIN a) \cup (DOMAIN b) |->
        IF k \in DOMAIN a /\ k \in DOMAIN b
        THEN [tvlSum |-> NumAdd(a[k].tvlSum, b[k].tvlSum),
              sharePriceSum |-> NumAdd(a[k].sharePriceSum, b[k].sharePriceSum),
              count |-> a[k].count + b[k].count]
        ELSE IF k \in DOMAIN a THEN a[k] ELSE b[k]]

RECURSIVE groupRange(_, _, _)
groupRange(points, lo, hi) ==
    IF lo > hi THEN [k \in {} |-> 0]
    ELSE IF lo = hi
    THEN [k \in {points[lo].timestamp} |->
            [tvlSum |-> Scaled(points[lo].tvl, USDC_DECIMALS),
             sharePriceSum |-> Scaled(points[lo].sharePriceE18, PRICE_DECIMALS),
             count |-> 1]]
    ELSE LET mid == (lo + hi) \div 2
         IN  groupAdd(groupRange(points, lo, mid), groupRange(points, mid + 1, hi))

groupedByTimestamp(points) == groupRange(points, 1, Len(points))

\* the keys of a Map in ascending order: Array.sort((a, b) => a - b) on distinct
\* integers, api.ts:307 and 348.  Both branches enumerate S in ascending order;
\* the first counts through lo..hi, the second ranks the elements.
SortAsc(S) ==
    IF S = {} THEN <<>>
    ELSE LET lo == CHOOSE x \in S : \A y \in S : x <= y
             hi == CHOOSE x \in S : \A y \in S : y <= x
             n == Cardinality(S)
         IN  IF hi - lo <= n * n
             THEN SelectSeq([i \in 1..(hi - lo + 1) |-> lo + i - 1], LAMBDA t : t \in S)
             ELSE [i \in 1..n |-> CHOOSE x \in S : Cardinality({y \in S : y < x}) = i - 1]

\* api.ts:301-307
aggregated(points) ==
    LET g == groupedByTimestamp(points)
        keys == SortAsc(DOMAIN g)
    IN  [i \in 1..Len(keys) |->
            [timestamp |-> keys[i],
             sharePrice |-> NumDiv(g[keys[i]].sharePriceSum, g[keys[i]].count),
             tvl |-> g[keys[i]].tvlSum]]

\* a width rounded down
bucketSize_Floor(dataRange) == dataRange \div TARGET_CHART_POINTS

\* api.ts:323
bucketSize(dataRange) == CeilDiv(dataRange, TARGET_CHART_POINTS)

\* an index that is not clamped
bucketIdx_Unclamped(timestamp, dataStart, size) == (timestamp - dataStart) \div size

\* api.ts:332-335
bucketIdx(timestamp, dataStart, size) ==
    Min((timestamp - dataStart) \div size, TARGET_CHART_POINTS - 1)

\* api.ts:325-344, built by halving as groupRange is
bucketAdd(a, b) ==
    [k \in (DOMAIN a) \cup (DOMAIN b) |->
        IF k \in DOMAIN a /\ k \in DOMAIN b
        THEN [sharePriceSum |-> NumAdd(a[k].sharePriceSum, b[k].sharePriceSum),
              tvlSum |-> NumAdd(a[k].tvlSum, b[k].tvlSum),
              count |-> a[k].count + b[k].count]
        ELSE IF k \in DOMAIN a THEN a[k] ELSE b[k]]

RECURSIVE bucketRange(_, _, _, _, _)
bucketRange(agg, dataStart, size, lo, hi) ==
    IF lo > hi THEN [k \in {} |-> 0]
    ELSE IF lo = hi
    THEN [k \in {bucketIdx(agg[lo].timestamp, dataStart, size)} |->
            [sharePriceSum |-> agg[lo].sharePrice, tvlSum |-> agg[lo].tvl, count |-> 1]]
    ELSE LET mid == (lo + hi) \div 2
         IN  bucketAdd(bucketRange(agg, dataStart, size, lo, mid),
                       bucketRange(agg, dataStart, size, mid + 1, hi))

buckets(agg, dataStart, size) == bucketRange(agg, dataStart, size, 1, Len(agg))

\* the start of the bucket instead of its midpoint
bucketTimestamp_Start(dataStart, idx, size) == dataStart + idx * size

\* the end of the bucket instead of its midpoint
bucketTimestamp_End(dataStart, idx, size) == dataStart + (idx + 1) * size

\* api.ts:350: the representative timestamp of bucket idx
bucketTimestamp(dataStart, idx, size) == dataStart + idx * size + (size \div 2)

\* api.ts:347-353
bucketPoints(b, dataStart, size) ==
    LET keys == SortAsc(DOMAIN b)
    IN  [i \in 1..Len(keys) |->
            [timestamp |-> bucketTimestamp(dataStart, keys[i], size),
             sharePrice |-> NumDiv(b[keys[i]].sharePriceSum, b[keys[i]].count),
             tvl |-> NumDiv(b[keys[i]].tvlSum, b[keys[i]].count)]]

\* buckets laid over the requested window
dataStart_RequestedWindow(agg, startTs) == startTs

\* api.ts:317-318: the span that is bucketed is the span of the aggregated
\* points; the requested window (startTs .. Now) is in scope and not used
dataStart(agg, startTs) == agg[1].timestamp

dataEnd(agg, startTs) == agg[Len(agg)].timestamp

\* downsampling from TARGET_CHART_POINTS points on
returnsAggregated_Below(agg, startTs) ==
    \/ Len(agg) < TARGET_CHART_POINTS
    \/ agg[Len(agg)].timestamp - agg[1].timestamp <= 0

\* api.ts:313-321: the series is returned as aggregated
returnsAggregated(agg, startTs) ==
    \/ Len(agg) <= TARGET_CHART_POINTS
    \/ dataEnd(agg, startTs) - dataStart(agg, startTs) <= 0

\* api.ts:271-353: the series computed from the rows of a response
historySeries(rows, startTs) ==
    LET agg == aggregated(validPoints(rows))
    IN  IF Len(agg) = 0 THEN <<>>
        ELSE IF returnsAggregated(agg, startTs) THEN agg
        ELSE LET start == dataStart(agg, startTs)
                 size == bucketSize(dataEnd(agg, startTs) - start)
             IN  bucketPoints(buckets(agg, start, size), start, size)

(***************************************************************************)
(* The indexer's table.  A feed shape gives the timestamp of every indexed *)
(* block, the number of vaults that reported in it and which readings are  *)
(* not priced yet.  Long feeds (around TARGET_CHART_POINTS blocks, seconds *)
(* apart) exercise the downsampling; short feeds (a few blocks with every  *)
(* combination of reading counts, seconds or days apart) exercise the      *)
(* snapshot selection.                                                     *)
(***************************************************************************)
MaxExtra == 3       \* long feeds: blocks indexed beyond TARGET_CHART_POINTS
MaxStride == 2      \* long feeds: seconds between two blocks
MaxVaults == 2      \* long feeds: vaults reporting per block
PauseSecs == 1000   \* long feeds: length of the indexer's pause half way
MaxBlocks == 6      \* short feeds: number of blocks
DaysApart == 10     \* short feeds: days between two blocks, when not seconds
CutSecs == 150      \* a window that starts this long after the first block
SmallLimit == 150   \* an explicit row limit below the size of a long feed
LagDays == 7        \* lagging feeds: days since the indexer wrote its newest block

LongCounts == (0..1) \cup ((TARGET_CHART_POINTS - 1)..(TARGET_CHART_POINTS + MaxExtra))

LongShapes ==
    {[n |-> n, stride |-> st, pause |-> IF ps THEN PauseSecs ELSE 0,
      counts |-> [i \in 1..n |-> c], unpriced |-> u, lag |-> 0, step |-> 0] :
        n \in LongCounts, st \in 1..MaxStride, ps \in BOOLEAN,
        c \in 1..MaxVaults, u \in {0, 3}}

\* the spec's example: five blocks with 3, 5, 2, 5, 1 readings, newest first
ExampleCounts == <<1, 5, 2, 5, 3>>

ShortShapes ==
    {[n |-> Len(cs), stride |-> st, pause |-> 0, counts |-> cs, unpriced |-> u,
      lag |-> 0, step |-> 0] :
        cs \in {ExampleCounts} \cup UNION {[1..n -> {1, 2}] : n \in 2..MaxBlocks},
        st \in {SNAPSHOT_INTERVAL_SECS, DaysApart * 24 * 60 * 60},
        u \in {0, 3}}

\* feeds of two or three blocks whose indexer may lag behind the clock and whose
\* readings may all be unpriced (unpriced = 1)
EdgeShapes ==
    {[n |-> Len(cs), stride |-> st, pause |-> 0, counts |-> cs, unpriced |-> u,
      lag |-> lg, step |-> 0] :
        cs \in UNION {[1..n -> {1, 2}] : n \in 2..3},
        st \in {SNAPSHOT_INTERVAL_SECS, DaysApart * 24 * 60 * 60},
        u \in {0, 1, 3},
        lg \in {0, LagDays * 24 * 60 * 60}}

\* the spec's example: one vault whose price went from 1.00 to 1.02 in 30 days
ExampleAprShape ==
    [n |-> 2, stride |-> 30 * 24 * 60 * 60, pause |-> 0, counts |-> <<1, 1>>,
     unpriced |-> 0, lag |-> 0, step |-> 20]

FeedShapes == LongShapes \cup ShortShapes \cup EdgeShapes \cup {ExampleAprShape}

\* the newest block is indexed shape.lag seconds before Now
blockTimestamp(shape, i) ==
    Now - shape.lag - (shape.n - i) * shape.stride
        - (IF 2 * i > shape.n THEN 0 ELSE shape.pause)

\* every unpriced-th reading has no price yet: 0, or a negative number; the
\* others vary from reading to reading, or rise by shape.step per block
blockPrice(shape, i, v) ==
    IF shape.unpriced > 0 /\ (i + v) % shape.unpriced = 0
    THEN (IF i % 2 = 0 THEN 0 ELSE -1)
    ELSE IF shape.step > 0 THEN 1000 + shape.step * (i - 1)
    ELSE 1000 + ((7 * i + 3 * v) % 11)

blockTvl(i, v) == 50 * v + (i % 4)

blockRows(shape, i) ==
    [v \in 1..shape.counts[i] |->
        [vault |-> v,
         timestamp |-> blockTimestamp(shape, i),
         tvl |-> blockTvl(i, v),
         sharePriceE18 |-> blockPrice(shape, i, v)]]

\* the rows of blocks lo..hi, newest block first
RECURSIVE feedRange(_, _, _)
feedRange(shape, lo, hi) ==
    IF lo > hi THEN <<>>
    ELSE IF lo = hi THEN blockRows(shape, lo)
    ELSE LET mid == (lo + hi) \div 2
         IN  feedRange(shape, mid + 1, hi) \o feedRange(shape, lo, mid)

FeedOf(shape) == feedRange(shape, 1, shape.n)

FirstBlock == IF Len(feed) = 0 THEN Now ELSE feed[Len(feed)].timestamp

NoCall ==
    [called |-> FALSE, ok |-> TRUE, response |-> "data", outcome |-> "resolved",
     startTs |-> 0, limit |-> NoLimit, sent |-> 0, rows |-> <<>>, series |-> <<>>]

\* the windows and limits the calls are made with
HistCalls ==
    {<<getTimestampDaysAgo(90), NoLimit>>, <<getTimestampDaysAgo(3), NoLimit>>,
     <<FirstBlock + CutSecs, NoLimit>>, <<getTimestampDaysAgo(90), SmallLimit>>,
     <<getTimestampDaysAgo(90), 0>>}

\* fetchSharePriceHistory(factoryAddress, fromTimestamp, limit), api.ts:246-358
fetchSharePriceHistory(fromTimestamp, limit, response) ==
    LET sent == queryLimit(fromTimestamp, limit)
        rows == IF response = "data" THEN HistoryQuery(feed, fromTimestamp, sent)
                ELSE <<>>
        result == IF bodyThrows(response) THEN caught(<<>>)
                  ELSE returned(historySeries(rows, fromTimestamp))
    IN  /\ hist' = [called |-> TRUE, ok |-> response = "data", response |-> response,
                    outcome |-> result.outcome, startTs |-> fromTimestamp,
                    limit |-> limit, sent |-> sent, rows |-> rows,
                    series |-> result.value]
        /\ UNCHANGED <<feed, apr, vaultApr, nav, hookVars, pageVars>>

(***************************************************************************)
(* useSharePriceHistory's fetchData, useSharePriceApi.ts:14-17, 54-78      *)
(***************************************************************************)
\* the hook's own copies of the three constants, useSharePriceApi.ts:15-17
HOOK_SNAPSHOT_INTERVAL_SECS == 40
HOOK_EST_VAULTS_PER_FACTORY == 5
HOOK_MAX_FETCH_ROWS == 25000

\* no hook made the last history call
NoCaller == [hook |-> FALSE, daysAgo |-> 0, limit |-> NoLimit]

\* limit || Math.min(...): a limit of 0 counts as missing
computedLimit_Falsy(daysAgo, limit) ==
    IF limit # NoLimit /\ limit # 0 THEN limit
    ELSE Min(CeilDiv(daysAgo * 86400, HOOK_SNAPSHOT_INTERVAL_SECS)
                 * HOOK_EST_VAULTS_PER_FACTORY,
             HOOK_MAX_FETCH_ROWS)

\* limit ?? Math.min(Math.ceil(daysAgo * 86400 / 40) * 5, 25000),
\* useSharePriceApi.ts:62-65
computedLimit(daysAgo, limit) ==
    IF limit # NoLimit THEN limit
    ELSE Min(CeilDiv(daysAgo * 86400, HOOK_SNAPSHOT_INTERVAL_SECS)
                 * HOOK_EST_VAULTS_PER_FACTORY,
             HOOK_MAX_FETCH_ROWS)

\* the daysAgo and limit props the hook is rendered with
HookDays == {0, 1, 90}
HookLimits == {NoLimit, 0, SmallLimit}

\* fetchData of useSharePriceHistory, useSharePriceApi.ts:54-78: the window's
\* start and the row limit are computed from the props and passed to the fetcher
useSharePriceHistory_fetchData(daysAgo, limit, response) ==
    /\ caller' = [hook |-> TRUE, daysAgo |-> daysAgo, limit |-> limit]
    /\ fetchSharePriceHistory(getTimestampDaysAgo(daysAgo),
                              computedLimit(daysAgo, limit), response)

(***************************************************************************)
(* fetchAprData, api.ts:360-446                                            *)
(***************************************************************************)
APR_QUERY_LIMIT == 200

\* null
NULL == [null |-> TRUE]

\* the first `limit` rows of a list
Limit(rows, limit) == SubSeq(rows, 1, Min(limit, Len(rows)))

Reverse(rows) == [k \in 1..Len(rows) |-> rows[Len(rows) + 1 - k]]

AprSnapshot(r) == [timestamp |-> r.timestamp, sharePriceE18 |-> r.sharePriceE18]

AprRows(rows) == [k \in 1..Len(rows) |-> AprSnapshot(rows[k])]

\* CALCULATE_APR_QUERY, api.ts:82-124: three row sets of priced rows
AprQueryLatest(table) ==
    Limit(AprRows(SelectSeq(table, LAMBDA r : r.sharePriceE18 > 0)), APR_QUERY_LIMIT)

\* a historical row set without the boundary
AprQueryHistorical_NoBoundary(table, fromTimestamp) ==
    Limit(AprRows(SelectSeq(table, LAMBDA r : r.sharePriceE18 > 0)), APR_QUERY_LIMIT)

AprQueryHistorical(table, fromTimestamp) ==
    Limit(AprRows(SelectSeq(table,
            LAMBDA r : r.sharePriceE18 > 0 /\ r.timestamp <= fromTimestamp)),
          APR_QUERY_LIMIT)

AprQueryEarliest(table) ==
    Limit(AprRows(Reverse(SelectSeq(table, LAMBDA r : r.sharePriceE18 > 0))),
          APR_QUERY_LIMIT)

\* api.ts:372-379: Map from timestamp to the list of its share prices, built by
\* halving the list of points as groupRange is
pricesAdd(a, b) ==
    [k \in (DOMAIN a) \cup (DOMAIN b) |->
        IF k \in DOMAIN a /\ k \in DOMAIN b THEN a[k] \o b[k]
        ELSE IF k \in DOMAIN a THEN a[k] ELSE b[k]]

RECURSIVE pricesRange(_, _, _)
pricesRange(points, lo, hi) ==
    IF lo > hi THEN [k \in {} |-> <<>>]
    ELSE IF lo = hi
    THEN [k \in {points[lo].timestamp} |->
            <<Scaled(points[lo].sharePriceE18, PRICE_DECIMALS)>>]
    ELSE LET mid == (lo + hi) \div 2
         IN  pricesAdd(pricesRange(points, lo, mid), pricesRange(points, mid + 1, hi))

groups(points) == pricesRange(points, 1, Len(points))

\* api.ts:383
sortedTimestamps(g) == Reverse(SortAsc(DOMAIN g))

\* a loop over every timestamp
examined_All(sorted) == Len(sorted)

\* api.ts:386: the number of candidates the loop examines, the newest included
examined(sorted) == Min(5, Len(sorted))

\* api.ts:384-393: the loop from index i on (i counts from 1 here)
RECURSIVE bestFrom(_, _, _, _)
bestFrom(g, sorted, i, bestTs) ==
    IF i > examined(sorted) THEN bestTs
    ELSE bestFrom(g, sorted, i + 1,
                  IF Len(g[sorted[i]]) > Len(g[bestTs]) THEN sorted[i] ELSE bestTs)

\* api.ts:365-400
averageAtMostRecentTimestamp(points) ==
    LET valid == validPoints(points)
    IN  IF Len(valid) = 0 THEN NULL
        ELSE LET g == groups(valid)
                 sorted == sortedTimestamps(g)
                 bestTs == bestFrom(g, sorted, 2, sorted[1])
                 prices == g[bestTs]
             IN  [timestamp |-> bestTs,
                  sharePrice |-> NumDiv(NumSum(prices, 1, Len(prices)), Len(prices))]

\* api.ts:427-429: historical ?? earliest
historicalOf(historicalRows, earliestRows) ==
    IF averageAtMostRecentTimestamp(historicalRows) # NULL
    THEN averageAtMostRecentTimestamp(historicalRows)
    ELSE averageAtMostRecentTimestamp(earliestRows)

\* 365.25 * 24 * 60 * 60, api.ts:435
SECONDS_PER_YEAR == 31557600

\* a formula without the check of the elapsed time
aprPercentOf_AnyElapsedTime(latest, historical) ==
    IF latest # NULL /\ historical # NULL /\ historical.sharePrice.n > 0
    THEN [gain |-> Num(latest.sharePrice.n * historical.sharePrice.d
                         - historical.sharePrice.n * latest.sharePrice.d,
                       historical.sharePrice.n * latest.sharePrice.d, -2),
          years |-> Num(latest.timestamp - historical.timestamp, SECONDS_PER_YEAR, 0)]
    ELSE NULL

\* api.ts:431-439.  aprPercent is ((priceRatio - 1) / timeDiffYears) * 100.  The
\* quotient is kept as its two terms, gain = (priceRatio - 1) * 100 and
\* years = timeDiffYears, both exact: aprPercent = gain / years, years > 0.
aprPercentOf(latest, historical) ==
    IF latest # NULL /\ historical # NULL /\ historical.sharePrice.n > 0
    THEN LET timeDiffSeconds == latest.timestamp - historical.timestamp
             up == latest.sharePrice.n * historical.sharePrice.d
                     - historical.sharePrice.n * latest.sharePrice.d
             down == historical.sharePrice.n * latest.sharePrice.d
         IN  IF timeDiffSeconds > 0
             THEN [gain |-> Num(up, down, -2),
                   years |-> Num(timeDiffSeconds, SECONDS_PER_YEAR, 0)]
             ELSE NULL
    ELSE NULL

\* { latest: null, historical: null, aprPercent: null }, api.ts:444, 494
NoAprData == [latest |-> NULL, historical |-> NULL, aprPercent |-> NULL]

NoAprCall ==
    [called |-> FALSE, ok |-> TRUE, response |-> "data", outcome |-> "resolved",
     fromTimestamp |-> 0,
     rows |-> [latest |-> <<>>, historical |-> <<>>, earliest |-> <<>>],
     latest |-> NULL, historical |-> NULL, aprPercent |-> NULL]

\* the lookback horizons of the calls, in days
AprDays == {7, 30}

\* fetchAprData(factoryAddress, fromTimestamp), api.ts:408-446
fetchAprData(fromTimestamp, response) ==
    LET data == IF response = "data"
                THEN [latest |-> AprQueryLatest(feed),
                      historical |-> AprQueryHistorical(feed, fromTimestamp),
                      earliest |-> AprQueryEarliest(feed)]
                ELSE NoAprCall.rows
        latest == averageAtMostRecentTimestamp(data.latest)
        historical == historicalOf(data.historical, data.earliest)
        result == IF bodyThrows(response) THEN caught(NoAprData)
                  ELSE returned([latest |-> latest, historical |-> historical,
                                 aprPercent |-> aprPercentOf(latest, historical)])
    IN  /\ apr' = [called |-> TRUE, ok |-> response = "data", response |-> response,
                   outcome |-> result.outcome, fromTimestamp |-> fromTimestamp,
                   rows |-> data, latest |-> result.value.latest,
                   historical |-> result.value.historical,
                   aprPercent |-> result.value.aprPercent]
        /\ UNCHANGED <<feed, hist, vaultApr, nav, caller, hookVars, pageVars>>

(***************************************************************************)
(* fetchAprDataForVault, api.ts:454-496                                    *)
(***************************************************************************)
VAULT_QUERY_LIMIT == 1

\* CALCULATE_APR_FOR_VAULT_QUERY, api.ts:126-162: three row sets of the priced
\* rows of one vault, each of at most one row
\* a latest row set ordered oldest first
VaultQueryLatest_Ascending(table, vaultId) ==
    Limit(AprRows(Reverse(SelectSeq(table,
            LAMBDA r : r.vault = vaultId /\ r.sharePriceE18 > 0))),
          VAULT_QUERY_LIMIT)

VaultQueryLatest(table, vaultId) ==
    Limit(AprRows(SelectSeq(table, LAMBDA r : r.vault = vaultId /\ r.sharePriceE18 > 0)),
          VAULT_QUERY_LIMIT)

VaultQueryHistorical(table, vaultId, fromTimestamp) ==
    Limit(AprRows(SelectSeq(table,
            LAMBDA r : r.vault = vaultId /\ r.timestamp <= fromTimestamp
                       /\ r.sharePriceE18 > 0)),
          VAULT_QUERY_LIMIT)

\* an earliest row set ordered newest first
VaultQueryEarliest_Descending(table, vaultId) ==
    Limit(AprRows(SelectSeq(table, LAMBDA r : r.vault = vaultId /\ r.sharePriceE18 > 0)),
          VAULT_QUERY_LIMIT)

VaultQueryEarliest(table, vaultId) ==
    Limit(AprRows(Reverse(SelectSeq(table,
            LAMBDA r : r.vault = vaultId /\ r.sharePriceE18 > 0))),
          VAULT_QUERY_LIMIT)

\* api.ts:469-476
toPoint(rows) ==
    IF Len(rows) = 0 \/ rows[1].sharePriceE18 = 0 THEN NULL
    ELSE [timestamp |-> rows[1].timestamp,
          sharePrice |-> Scaled(rows[1].sharePriceE18, PRICE_DECIMALS)]

\* api.ts:479: toPoint(data.historical) ?? toPoint(data.earliest)
vaultHistoricalOf(historicalRows, earliestRows) ==
    IF toPoint(historicalRows) # NULL THEN toPoint(historicalRows)
    ELSE toPoint(earliestRows)

\* a year of 365 days
vaultAprPercentOf_CalendarYear(latest, historical) ==
    IF latest # NULL /\ historical # NULL /\ historical.sharePrice.n > 0
       /\ latest.timestamp - historical.timestamp > 0
    THEN [gain |-> Num(latest.sharePrice.n * historical.sharePrice.d
                         - historical.sharePrice.n * latest.sharePrice.d,
                       historical.sharePrice.n * latest.sharePrice.d, -2),
          years |-> Num(latest.timestamp - historical.timestamp,
                        365 * 24 * 60 * 60, 0)]
    ELSE NULL

\* api.ts:481-489, the single-vault copy of the APR formula; the quotient is
\* kept as its two terms as in aprPercentOf
vaultAprPercentOf(latest, historical) ==
    IF latest # NULL /\ historical # NULL /\ historical.sharePrice.n > 0
    THEN LET priceRatioUp == latest.sharePrice.n * historical.sharePrice.d
             priceRatioDown == historical.sharePrice.n * latest.sharePrice.d
             timeDiffSeconds == latest.timestamp - historical.timestamp
         IN  IF timeDiffSeconds > 0
             THEN [gain |-> Num(priceRatioUp - priceRatioDown, priceRatioDown, -2),
                   years |-> Num(timeDiffSeconds, SECONDS_PER_YEAR, 0)]
             ELSE NULL
    ELSE NULL

NoVaultAprCall ==
    [called |-> FALSE, ok |-> TRUE, response |-> "data", outcome |-> "resolved",
     vaultId |-> 0, fromTimestamp |-> 0,
     rows |-> [latest |-> <<>>, historical |-> <<>>, earliest |-> <<>>],
     latest |-> NULL, historical |-> NULL, aprPercent |-> NULL]

\* the vaults of the factory: vault v reports in the blocks with v or more readings
VaultIds == 1..2

\* fetchAprDataForVault(vaultId, fromTimestamp), api.ts:454-496
fetchAprDataForVault(vaultId, fromTimestamp, response) ==
    LET data == IF response = "data"
                THEN [latest |-> VaultQueryLatest(feed, vaultId),
                      historical |-> VaultQueryHistorical(feed, vaultId, fromTimestamp),
                      earliest |-> VaultQueryEarliest(feed, vaultId)]
                ELSE NoVaultAprCall.rows
        latest == toPoint(data.latest)
        historical == vaultHistoricalOf(data.historical, data.earliest)
        result == IF bodyThrows(response) THEN caught(NoAprData)
                  ELSE returned([latest |-> latest, historical |-> historical,
                                 aprPercent |-> vaultAprPercentOf(latest, historical)])
    IN  /\ vaultApr' = [called |-> TRUE, ok |-> response = "data",
                        response |-> response, outcome |-> result.outcome,
                        vaultId |-> vaultId, fromTimestamp |-> fromTimestamp,
                        rows |-> data, latest |-> result.value.latest,
                        historical |-> result.value.historical,
                        aprPercent |-> result.value.aprPercent]
        /\ UNCHANGED <<feed, hist, apr, nav, caller, hookVars, pageVars>>

(***************************************************************************)
(* fetchNav, api.ts:502-554                                                *)
(***************************************************************************)
\* FETCH_LATEST_TVL_QUERY, api.ts:164-180: every row of the factory, newest first
NavQuery(table) == [k \in 1..Len(table) |-> SharePriceHistoryPoint(table[k])]

\* api.ts:518-520: Math.max over the timestamps of all rows
latestTimestamp(rows) ==
    LET T == {rows[k].timestamp : k \in 1..Len(rows)}
    IN  CHOOSE t \in T : \A u \in T : u <= t

\* a filter on the timestamp alone
isLatestPoint_AnyPrice(point, latestTs) == point.timestamp = latestTs

\* api.ts:523-527
isLatestPoint(point, latestTs) == point.timestamp = latestTs /\ point.sharePriceE18 > 0

latestPoints(rows, latestTs) == SelectSeq(rows, LAMBDA point : isLatestPoint(point, latestTs))

\* api.ts:513-549
navOf(rows) ==
    IF Len(rows) = 0 THEN NULL
    ELSE LET latestTs == latestTimestamp(rows)
             points == latestPoints(rows, latestTs)
         IN  IF Len(points) = 0 THEN NULL
             ELSE [timestamp |-> latestTs,
                   totalTvl |->
                       NumSum([k \in 1..Len(points) |-> Scaled(points[k].tvl, USDC_DECIMALS)],
                              1, Len(points)),
                   averageSharePrice |->
                       NumDiv(NumSum([k \in 1..Len(points) |->
                                         Scaled(points[k].sharePriceE18, PRICE_DECIMALS)],
                                     1, Len(points)),
                              Len(points))]

NoNavCall ==
    [called |-> FALSE, ok |-> TRUE, response |-> "data", outcome |-> "resolved",
     rows |-> <<>>, data |-> NULL]

\* fetchNav(factoryAddress), api.ts:502-554
fetchNav(response) ==
    LET rows == IF response = "data" THEN NavQuery(feed) ELSE <<>>
        result == IF bodyThrows(response) THEN caught(NULL) ELSE returned(navOf(rows))
    IN  /\ nav' = [called |-> TRUE, ok |-> response = "data", response |-> response,
                   outcome |-> result.outcome, rows |-> rows, data |-> result.value]
        /\ UNCHANGED <<feed, hist, apr, vaultApr, caller, hookVars, pageVars>>

(***************************************************************************)
(* useVaultData, src/src/hooks/useVaultData.ts:66-146.  The hook is a      *)
(* function of what wagmi returns at a render: the connected account, the  *)
(* two batched contract reads and their loading flags.                     *)
(***************************************************************************)
\* undefined, for a value that is otherwise a bigint >= 0
Undefined == -1

\* quoteDecimals of the configured vaults, config/vaults.ts:307
quoteDecimals == 6

\* BigInt(10 ** vault.quoteDecimals), useVaultData.ts:68
unitShares == 10 ^ quoteDecimals

\* a read that succeeded with a result, and one that failed
readSuccess(result) == [status |-> "success", result |-> result]
readFailure == [status |-> "readFailure", result |-> Undefined]

\* the six vault reads, useVaultData.ts:73-92: all of them target the user's
\* vault, so none can succeed without a vault address; with one, data is still
\* missing (<<>>), or every read succeeded, or one of them failed
GlobalReads(hasVault) ==
    IF ~hasVault THEN {<<>>, [i \in 1..6 |-> readFailure]}
    ELSE {<<>>, [i \in 1..6 |-> readSuccess(10 + i)]}
            \cup {[i \in 1..6 |-> IF i = k THEN readFailure ELSE readSuccess(10 + i)] :
                    k \in 1..6}

\* the three user reads, useVaultData.ts:95-125: balanceOf on the vault, and
\* balanceOf and allowance on the quote token, which need no vault address
UserReads(hasVault) ==
    {<<>>} \cup
    {<<s0, s1, s2>> : s0 \in IF hasVault THEN {readFailure, readSuccess(20)} ELSE {readFailure},
                      s1 \in {readFailure, readSuccess(21)},
                      s2 \in {readFailure, readSuccess(22)}}

\* every combination of inputs of one render
Reads ==
    UNION {[address : {connected}, userVaultAddress : {hasVault},
            global : GlobalReads(hasVault), globalLoading : BOOLEAN,
            user : UserReads(hasVault), userLoading : BOOLEAN] :
              connected \in BOOLEAN, hasVault \in BOOLEAN}

\* data?.[i]?.status === 'success' ? data[i].result : undefined,
\* useVaultData.ts:127-131 (i counts from 0)
readResult(data, i) ==
    IF (i + 1) \in DOMAIN data /\ data[i + 1].status = "success"
    THEN data[i + 1].result
    ELSE Undefined

\* x ?? fallback
orElse(x, fallback) == IF x = Undefined THEN fallback ELSE x

\* the object useVaultData returns, useVaultData.ts:133-145
useVaultData(r) ==
    LET hasVault == r.userVaultAddress
        g(i) == readResult(r.global, i)
        u(i) == readResult(r.user, i)
    IN  [totalAssets |-> orElse(g(0), 0),
         totalSupply |-> orElse(g(1), 0),
         sharePrice |-> orElse(g(2), unitShares),
         currentLTV |-> orElse(g(3), 0),
         unlockInterval |-> orElse(g(4), 0),
         lastKuruDepositTime |-> orElse(g(5), 0),
         userShares |-> IF r.address /\ hasVault THEN u(0) ELSE Undefined,
         userQuoteBalance |-> IF r.address THEN u(1) ELSE Undefined,
         userQuoteAllowance |-> IF r.address /\ hasVault THEN u(2) ELSE Undefined,
         isLoading |-> (hasVault /\ r.globalLoading)
                           \/ (r.address /\ hasVault /\ r.userLoading)]

\* no wallet, no vault, nothing read yet
NoReads ==
    [address |-> FALSE, userVaultAddress |-> FALSE, global |-> <<>>,
     globalLoading |-> FALSE, user |-> <<>>, userLoading |-> FALSE]

(***************************************************************************)
(* ActionPanel's tabs, components/Header.tsx:203-692.  A tab renders from  *)
(* its props and state; a click runs the handler of the button as it was   *)
(* last rendered.  writeContract hands the call to the wallet, which signs *)
(* or rejects it later; the hash of a signed call reaches the hook that    *)
(* made it only while that call is the hook's latest.                      *)
(***************************************************************************)
MaxCalls == 3       \* writeContract calls of one tab
MaxClock == 1       \* seconds that pass while the tab is open

\* <input type="number"> values: '', or a decimal literal n / d
EmptyInput == [kind |-> "empty", n |-> 0, d |-> 1]

Literal(n, d) == [kind |-> "number", n |-> n, d |-> d]

\* '', -1, 0.0000001 (less than one unit), 1 and 3
InputValues ==
    {EmptyInput, Literal(-1, 1), Literal(1, 10 * unitShares), Literal(1, 1),
     Literal(3, 1)}

\* parseInputAmount, Header.tsx:681-688: floor(n / d * 10 ^ decimals), whole
\* part and fraction taken apart to stay within TLC's integers
parseInputAmount(value, decimals) ==
    IF value.kind # "number" \/ value.n <= 0 THEN 0
    ELSE (value.n \div value.d) * 10 ^ decimals
             + ((value.n % value.d) * 10 ^ decimals) \div value.d

\* formatRaw, Header.tsx:690-692
formatRaw(raw, decimals) == Literal(raw, 10 ^ decimals)

\* a writeContract call: the wallet is asked to sign, then the transaction
\* is pending until its receipt; nonce is its place among the signed ones
CallStatus == {"signing", "rejected", "pending", "confirmed"}

newCall(fn) == [fn |-> fn, status |-> "signing", nonce |-> 0]

\* the latest call one useWriteContract() made, 0 when it made none
latestCall(calls, fn) ==
    LET made == {i \in 1..Len(calls) : calls[i].fn = fn}
    IN  IF made = {} THEN 0 ELSE CHOOSE i \in made : \A j \in made : j <= i

\* useWriteContract().data, Header.tsx:255-256, 397: the hash of the hook's
\* latest call once the wallet has signed it (its index; 0 for undefined)
txHash(calls, fn) ==
    LET i == latestCall(calls, fn)
    IN  IF i > 0 /\ calls[i].status \in {"pending", "confirmed"} THEN i ELSE 0

\* useWaitForTransactionReceipt({ hash }).isLoading, Header.tsx:258-263, 398-402
receiptLoading(calls, fn) ==
    LET i == txHash(calls, fn) IN i > 0 /\ calls[i].status = "pending"

\* the wallet signs call i and broadcasts it
signed(calls, i) ==
    [calls EXCEPT ![i].status = "pending",
                  ![i].nonce = 1 + Cardinality({j \in 1..Len(calls) : calls[j].nonce > 0})]

\* transactions of one account are mined in nonce order
nextMined(calls, i) ==
    /\ calls[i].status = "pending"
    /\ \A j \in 1..Len(calls) :
           calls[j].status = "pending" => calls[i].nonce <= calls[j].nonce

\* ActionButton, Header.tsx:626-657: disabled={disabled || loading}
ActionButton(disabled, loading) == ~(disabled \/ loading)

\* ---- WithdrawTab, Header.tsx:371-598 ----
FourDays == 4 * 86400
HeldShares == 2 * unitShares
\* a deposit whose lock ends one second after the tab opens
DepositTime == Now + 1 - FourDays

\* the fields of `data` the tab reads, Header.tsx:36-50, 375, 382-384
WithdrawData ==
    [userShares : {Undefined, HeldShares},
     lastDepositTime : {Undefined, 0, DepositTime},
     unlockInterval : {0, FourDays}]

\* Header.tsx:375-376
userShares(t) == orElse(t.data.userShares, 0)
inputShares(t) == parseInputAmount(t.inputValue, quoteDecimals)

\* Header.tsx:382-384 (null is Undefined here)
unlockAt(t) ==
    IF t.data.lastDepositTime \notin {Undefined, 0}
    THEN t.data.lastDepositTime + t.data.unlockInterval
    ELSE Undefined

\* Header.tsx:386, with Date.now() of the last render
isLocked(t) == unlockAt(t) # Undefined /\ unlockAt(t) > t.renderedAt

\* Header.tsx:446
insufficientShares(t) == inputShares(t) > userShares(t)

\* Header.tsx:398-402
withdrawing(t) == receiptLoading(t.calls, "withdraw")

\* the Withdraw button, Header.tsx:583-589
withdrawEnabled(t) ==
    ActionButton(inputShares(t) = 0 \/ insufficientShares(t) \/ isLocked(t),
                 withdrawing(t))

\* a render reads the clock
rendered(t) == [t EXCEPT !.renderedAt = t.clock]

NoWithdrawTab ==
    [data |-> [userShares |-> Undefined, lastDepositTime |-> Undefined,
               unlockInterval |-> 0],
     inputValue |-> EmptyInput, clock |-> Now, renderedAt |-> Now, calls |-> <<>>]

withdrawOthers ==
    <<feed, hist, apr, vaultApr, nav, caller, hookVars, reads, vaultData,
      inputsFinal, depositTab>>

\* onChange of the input, Header.tsx:500-506
WithdrawInput ==
    /\ \E v \in InputValues :
           /\ v # withdrawTab.inputValue
           /\ withdrawTab' = rendered([withdrawTab EXCEPT !.inputValue = v])
    /\ UNCHANGED withdrawOthers

\* the Max button, Header.tsx:492-497
WithdrawMax ==
    /\ withdrawTab' =
           rendered([withdrawTab EXCEPT
                       !.inputValue = formatRaw(userShares(withdrawTab), quoteDecimals)])
    /\ withdrawTab' # withdrawTab
    /\ UNCHANGED withdrawOthers

\* the parent renders the tab with new data
WithdrawProps ==
    /\ \E d \in WithdrawData :
           /\ d # withdrawTab.data
           /\ withdrawTab' = rendered([withdrawTab EXCEPT !.data = d])
    /\ UNCHANGED withdrawOthers

\* a second passes; nothing renders
WithdrawClock ==
    /\ withdrawTab.clock < Now + MaxClock
    /\ withdrawTab' = [withdrawTab EXCEPT !.clock = @ + 1]
    /\ UNCHANGED withdrawOthers

\* the countdown ticker sets a new countdown, Header.tsx:389-395
WithdrawCountdown ==
    /\ unlockAt(withdrawTab) # Undefined
    /\ withdrawTab.renderedAt # withdrawTab.clock
    /\ withdrawTab' = rendered(withdrawTab)
    /\ UNCHANGED withdrawOthers

\* a click on the enabled button: handleWithdraw, Header.tsx:436-444, called
\* with args [inputShares]
handleWithdraw ==
    /\ withdrawEnabled(withdrawTab)
    /\ inputShares(withdrawTab) # 0
    /\ Len(withdrawTab.calls) < MaxCalls
    /\ withdrawTab' =
           rendered([withdrawTab EXCEPT !.calls = Append(@, newCall("withdraw"))])
    /\ UNCHANGED withdrawOthers

WithdrawSigned ==
    /\ \E i \in 1..Len(withdrawTab.calls) :
           /\ withdrawTab.calls[i].status = "signing"
           /\ withdrawTab' =
                  rendered([withdrawTab EXCEPT !.calls = signed(@, i)])
    /\ UNCHANGED withdrawOthers

WithdrawRejected ==
    /\ \E i \in 1..Len(withdrawTab.calls) :
           /\ withdrawTab.calls[i].status = "signing"
           /\ withdrawTab' =
                  rendered([withdrawTab EXCEPT !.calls[i].status = "rejected"])
    /\ UNCHANGED withdrawOthers

\* the transaction is mined; when the hook was waiting for it, withdrawSuccess
\* runs the effect of Header.tsx:404-434: setInputValue('')
WithdrawReceipt ==
    /\ \E i \in 1..Len(withdrawTab.calls) :
           /\ nextMined(withdrawTab.calls, i)
           /\ withdrawTab' =
                  rendered([withdrawTab EXCEPT
                              !.calls[i].status = "confirmed",
                              !.inputValue =
                                  IF i = txHash(withdrawTab.calls, "withdraw")
                                  THEN EmptyInput ELSE @])
    /\ UNCHANGED withdrawOthers

WithdrawNext ==
    \/ WithdrawInput \/ WithdrawMax \/ WithdrawProps \/ WithdrawClock
    \/ WithdrawCountdown \/ handleWithdraw \/ WithdrawSigned \/ WithdrawRejected
    \/ WithdrawReceipt

\* ---- DepositTab, Header.tsx:244-367 ----
HeldQuote == 2 * unitShares
\* viem's maxUint256, the allowance handleApprove asks for, cut to the largest
\* integer of TLC; it is only compared with amounts, all of them smaller
maxUint256 == 2147483647

\* the fields of `data` the tab reads, Header.tsx:36-50, 250-253, 280
DepositData ==
    [userQuoteBalance : {Undefined, HeldQuote},
     userQuoteAllowance : {Undefined, 0, unitShares, maxUint256}]

\* Header.tsx:247
inputAmount(t) == parseInputAmount(t.inputValue, quoteDecimals)

\* Header.tsx:250-253
needsApproval(t) ==
    /\ inputAmount(t) > 0
    /\ t.data.userQuoteAllowance # Undefined
    /\ t.data.userQuoteAllowance < inputAmount(t)

\* Header.tsx:280-281
maxBalance(t) == orElse(t.data.userQuoteBalance, 0)
insufficientBalance(t) == inputAmount(t) > maxBalance(t)

\* Header.tsx:258-263, 302
busy(t) == receiptLoading(t.calls, "approve") \/ receiptLoading(t.calls, "deposit")

\* the button the tab shows, Header.tsx:348-360
approveEnabled(t) ==
    needsApproval(t) /\ ActionButton(inputAmount(t) = 0, busy(t))

depositEnabled(t) ==
    ~needsApproval(t)
        /\ ActionButton(inputAmount(t) = 0 \/ insufficientBalance(t), busy(t))

NoDepositTab ==
    [data |-> [userQuoteBalance |-> Undefined, userQuoteAllowance |-> Undefined],
     inputValue |-> EmptyInput, calls |-> <<>>]

depositOthers ==
    <<feed, hist, apr, vaultApr, nav, caller, hookVars, reads, vaultData,
      inputsFinal, withdrawTab>>

\* onChange of the input, Header.tsx:318-324
DepositInput ==
    /\ \E v \in InputValues :
           /\ v # depositTab.inputValue
           /\ depositTab' = [depositTab EXCEPT !.inputValue = v]
    /\ UNCHANGED depositOthers

\* the Max button, Header.tsx:310-315
DepositMax ==
    /\ depositTab' =
           [depositTab EXCEPT
              !.inputValue = formatRaw(maxBalance(depositTab), quoteDecimals)]
    /\ depositTab' # depositTab
    /\ UNCHANGED depositOthers

\* the parent renders the tab with new data
DepositProps ==
    /\ \E d \in DepositData :
           /\ d # depositTab.data
           /\ depositTab' = [depositTab EXCEPT !.data = d]
    /\ UNCHANGED depositOthers

\* a click on the enabled Approve button: handleApprove, Header.tsx:283-290
handleApprove ==
    /\ approveEnabled(depositTab)
    /\ Len(depositTab.calls) < MaxCalls
    /\ depositTab' = [depositTab EXCEPT !.calls = Append(@, newCall("approve"))]
    /\ UNCHANGED depositOthers

\* a click on the enabled Deposit button: handleDeposit, Header.tsx:292-300,
\* called with args [inputAmount]
handleDeposit ==
    /\ depositEnabled(depositTab)
    /\ inputAmount(depositTab) # 0
    /\ Len(depositTab.calls) < MaxCalls
    /\ depositTab' = [depositTab EXCEPT !.calls = Append(@, newCall("deposit"))]
    /\ UNCHANGED depositOthers

DepositSigned ==
    /\ \E i \in 1..Len(depositTab.calls) :
           /\ depositTab.calls[i].status = "signing"
           /\ depositTab' = [depositTab EXCEPT !.calls = signed(@, i)]
    /\ UNCHANGED depositOthers

DepositRejected ==
    /\ \E i \in 1..Len(depositTab.calls) :
           /\ depositTab.calls[i].status = "signing"
           /\ depositTab' = [depositTab EXCEPT !.calls[i].status = "rejected"]
    /\ UNCHANGED depositOthers

\* the transaction is mined; when the deposit hook was waiting for it,
\* depositSuccess runs the effect of Header.tsx:272-278: setInputValue('')
DepositReceipt ==
    /\ \E i \in 1..Len(depositTab.calls) :
           /\ nextMined(depositTab.calls, i)
           /\ depositTab' =
                  [depositTab EXCEPT
                     !.calls[i].status = "confirmed",
                     !.inputValue =
                         IF i = txHash(depositTab.calls, "deposit")
                         THEN EmptyInput ELSE @]
    /\ UNCHANGED depositOthers

DepositNext ==
    \/ DepositInput \/ DepositMax \/ DepositProps \/ handleApprove
    \/ handleDeposit \/ DepositSigned \/ DepositRejected \/ DepositReceipt

\* no wallet read has been rendered
ReadsIdle ==
    /\ inputsFinal = FALSE
    /\ reads = NoReads
    /\ vaultData = useVaultData(NoReads)

\* the page is not in use, and no data hook has seen its last arguments
PageIdle ==
    /\ ReadsIdle
    /\ withdrawTab = NoWithdrawTab
    /\ depositTab = NoDepositTab

\* wagmi hands the component new values and it renders with them
RenderVault ==
    /\ \E r \in Reads : r # reads /\ reads' = r /\ vaultData' = useVaultData(r)
    /\ UNCHANGED <<feed, hist, apr, vaultApr, nav, caller, hookVars, inputsFinal,
                   withdrawTab, depositTab>>

(***************************************************************************)
(* The data hooks, useSharePriceApi.ts and useMerklRewards.ts.  Each hook  *)
(* is a useEffect that starts a fetch and returns a cleanup that sets the  *)
(* closure's `cancelled`; React runs the cleanup of the previous effect    *)
(* and then the effect whenever a dependency changed in a render, and the  *)
(* cleanup alone on unmount.  Renders, effects, timers and fetch           *)
(* completions are separate tasks of one thread.                           *)
(***************************************************************************)
MaxRuns == 3        \* fetches one hook instance starts
MaxRefetch == 2     \* refetch() calls and interval ticks

HookKinds ==
    {"useSharePriceHistory", "useAprData", "useAprDataForVault", "useNavData",
     "useMerklRewards", "useMerklCampaignApr"}

\* useSharePriceApi.ts:154-156, 286-288: the hooks that set an interval
hasInterval(kind) == kind \in {"useAprData", "useNavData"}

\* every hook but useMerklCampaignApr takes `enabled` and returns refetch()
hasEnabled(kind) == kind # "useMerklCampaignApr"

\* useState(true) for isLoading in the four backend hooks (useSharePriceApi.ts:42,
\* 119, 187, 252), useState(false) in the Merkl hooks (:313, useMerklRewards.ts:28)
initialLoading(kind) == kind \notin {"useMerklRewards", "useMerklCampaignApr"}

NoData == [by |-> 0, value |-> "initial"]

\* the arguments a component passes: the address ("" when there is none), the
\* other dependency (daysAgo, limit, chainId or refetchInterval) and enabled
PropsOf(kind) ==
    [address : {"", "0xA"}, param : {1, 2},
     enabled : IF hasEnabled(kind) THEN BOOLEAN ELSE {TRUE}]

\* the dependency list of the effect, useSharePriceApi.ts:85, 162, 224, 294, 326
depsOf(p, trigger) == <<p.address, p.param, p.enabled, trigger>>

NoDeps == <<>>

\* useSharePriceApi.ts:47, 124, 192, 257, 316; useMerklRewards.ts:33
skipsFetch(p) == ~p.enabled \/ p.address = ""

\* an effect that returns no cleanup
cleanup_Nothing(rs, run) == rs

\* a cleanup that leaves the interval running
cleanup_KeepsInterval(rs, run) ==
    IF run = 0 THEN rs ELSE [rs EXCEPT ![run].cancelled = TRUE]

\* a cleanup that does not cancel the fetch
cleanup_KeepsFetch(rs, run) ==
    IF run = 0 THEN rs
    ELSE [rs EXCEPT ![run].timer = IF @ = "active" THEN "cleared" ELSE @]

\* the cleanup returned by the effect that started fetch `run`:
\* cancelled = true, and clearInterval(intervalId) where there is one
cleanup(rs, run) ==
    IF run = 0 THEN rs
    ELSE [rs EXCEPT ![run].cancelled = TRUE,
                    ![run].timer = IF @ = "active" THEN "cleared" ELSE @]

\* a branch without setIsLoading(false)
skipState_KeepsLoading(kind, state) ==
    IF kind = "useMerklRewards"
    THEN [data |-> [by |-> 0, value |-> "empty"], isLoading |-> state.isLoading,
          error |-> FALSE]
    ELSE state

\* the branch of the effect that starts no fetch
skipState(kind, state) ==
    IF kind = "useMerklCampaignApr" THEN state
    ELSE IF kind = "useMerklRewards"
    THEN [data |-> [by |-> 0, value |-> "empty"], isLoading |-> FALSE, error |-> FALSE]
    ELSE [state EXCEPT !.isLoading = FALSE]

\* fetchData() up to its await: setIsLoading(true); setError(null)
startState(kind, state) ==
    IF kind = "useMerklCampaignApr" THEN [state EXCEPT !.isLoading = TRUE]
    ELSE [state EXCEPT !.isLoading = TRUE, !.error = FALSE]

\* the continuation of the await: if (!cancelled) { setData(result); setIsLoading(false) }
mayWrite(run) == ~run.cancelled

HookInit ==
    /\ hookKind \in HookKinds
    /\ mounted = TRUE
    /\ props \in PropsOf(hookKind)
    /\ refetchTrigger = 0
    /\ effect = [deps |-> NoDeps, run |-> 0]
    /\ runs = <<>>
    /\ ui = [data |-> NoData, isLoading |-> initialLoading(hookKind), error |-> FALSE]
    /\ writer = 0
    /\ feed = <<>>
    /\ hist = NoCall
    /\ apr = NoAprCall
    /\ vaultApr = NoVaultAprCall
    /\ nav = NoNavCall
    /\ caller = NoCaller
    /\ PageIdle

\* React runs the effects of a committed render whose dependencies changed
RunEffect ==
    /\ mounted
    /\ depsOf(props, refetchTrigger) # effect.deps
    /\ IF skipsFetch(props)
       THEN /\ runs' = cleanup(runs, effect.run)
            /\ ui' = skipState(hookKind, ui)
            /\ effect' = [deps |-> depsOf(props, refetchTrigger), run |-> 0]
       ELSE /\ Len(runs) < MaxRuns
            /\ runs' = Append(cleanup(runs, effect.run),
                              [cancelled |-> FALSE, settled |-> FALSE, wrote |-> FALSE,
                               timer |-> IF hasInterval(hookKind) THEN "active"
                                         ELSE "none"])
            /\ ui' = startState(hookKind, ui)
            /\ effect' = [deps |-> depsOf(props, refetchTrigger), run |-> Len(runs) + 1]
    /\ UNCHANGED <<hookKind, mounted, props, refetchTrigger, writer, apiVars>>

\* the parent renders the component with other arguments
Rerender ==
    /\ mounted
    /\ \E p \in PropsOf(hookKind) : p # props /\ props' = p
    /\ UNCHANGED <<hookKind, mounted, refetchTrigger, effect, runs, ui, writer, apiVars>>

\* refetch(): setRefetchTrigger(prev => prev + 1)
Refetch ==
    /\ mounted
    /\ hasEnabled(hookKind)
    /\ refetchTrigger < MaxRefetch
    /\ refetchTrigger' = refetchTrigger + 1
    /\ UNCHANGED <<hookKind, mounted, props, effect, runs, ui, writer, apiVars>>

\* the callback of setInterval: setRefetchTrigger(prev => prev + 1)
IntervalTick ==
    /\ \E id \in 1..Len(runs) : runs[id].timer = "active"
    /\ refetchTrigger < MaxRefetch
    /\ refetchTrigger' = IF mounted THEN refetchTrigger + 1 ELSE refetchTrigger
    /\ UNCHANGED <<hookKind, mounted, props, effect, runs, ui, writer, apiVars>>

\* the hooks whose data is an AprData
isAprHook(kind) == kind \in {"useAprData", "useAprDataForVault"}

\* what the hook's fetcher meets: rows it computes a result from, no valid row,
\* snapshots between which no time has elapsed (the APR fetchers), or a failure
HookResponses(kind) ==
    {"data", "noRows", "failure"}
        \cup (IF isAprHook(kind) THEN {"noElapsedTime"} ELSE {})

\* the promise of the fetcher: "empty" is its empty value ([], null, [] of
\* rewards, or { latest: null, historical: null, aprPercent: null }), "nullApr"
\* an AprData with snapshots and aprPercent: null
fetched(response) ==
    IF response = "failure" THEN caught("empty")
    ELSE returned(CASE response = "data" -> "result"
                    [] response = "noRows" -> "empty"
                    [] OTHER -> "nullApr")

\* a completion that leaves what was loaded when the fetcher has nothing
onResult_KeepsLoadedData(state, id, value) ==
    IF value = "result"
    THEN [state EXCEPT !.data = [by |-> id, value |-> value], !.isLoading = FALSE]
    ELSE [state EXCEPT !.isLoading = FALSE]

\* if (!cancelled) { setData(result); setIsLoading(false) },
\* useSharePriceApi.ts:68-71, 139-142, 207-210, 271-274, 320-323
onResult(state, id, value) ==
    [state EXCEPT !.data = [by |-> id, value |-> value], !.isLoading = FALSE]

\* catch (err) { if (!cancelled) { setError(...); setIsLoading(false) } },
\* useSharePriceApi.ts:72-77; the promise of useMerklCampaignApr has no handler
\* of a rejection (:319-324)
onError(kind, state) ==
    IF kind = "useMerklCampaignApr" THEN state
    ELSE [state EXCEPT !.error = TRUE, !.isLoading = FALSE]

\* the fetch of run `id` settles
Resolve(id, response) ==
    LET promise == fetched(response)
        handled == promise.outcome = "resolved" \/ hookKind # "useMerklCampaignApr"
    IN  /\ ~runs[id].settled
        /\ runs' = [runs EXCEPT ![id].settled = TRUE,
                                ![id].wrote = mayWrite(runs[id]) /\ handled]
        /\ IF mayWrite(runs[id]) /\ handled
           THEN /\ ui' = IF promise.outcome = "resolved"
                         THEN onResult(ui, id, promise.value)
                         ELSE onError(hookKind, ui)
                /\ writer' = id
           ELSE UNCHANGED <<ui, writer>>
        /\ UNCHANGED <<hookKind, mounted, props, refetchTrigger, effect, apiVars>>

FetchResolves ==
    \E id \in 1..Len(runs), response \in HookResponses(hookKind) : Resolve(id, response)

\* the component unmounts: React runs the cleanup of the last effect
Unmount ==
    /\ mounted
    /\ mounted' = FALSE
    /\ runs' = cleanup(runs, effect.run)
    /\ effect' = [effect EXCEPT !.run = 0]
    /\ UNCHANGED <<hookKind, props, refetchTrigger, ui, writer, apiVars>>

HookNext == RunEffect \/ Rerender \/ Refetch \/ IntervalTick \/ FetchResolves \/ Unmount

(***************************************************************************)
(* The same hooks run without end.  Fetches are numbered from the oldest   *)
(* one still remembered, and refetchTrigger is counted from the value the  *)
(* effect last saw, so that the interval can tick for ever in finitely     *)
(* many states.                                                            *)
(***************************************************************************)
\* the number of a fetch once the oldest one is forgotten
renumbered(id) == IF id > 0 THEN id - 1 ELSE 0

\* a superseded fetch that has settled can do nothing any more: forget it
Forget ==
    /\ Len(runs) > 0
    /\ runs[1].settled
    /\ effect.run # 1
    /\ runs' = Tail(runs)
    /\ effect' = [effect EXCEPT !.run = renumbered(@)]
    /\ writer' = renumbered(writer)
    /\ ui' = [ui EXCEPT !.data.by = renumbered(@)]
    /\ UNCHANGED <<hookKind, mounted, props, refetchTrigger, apiVars>>

\* only whether refetchTrigger differs from the value in the effect's
\* dependencies matters (useSharePriceApi.ts:85, 162, 224, 294): count both
\* from the smaller one
Renumber ==
    /\ effect.deps # NoDeps
    /\ LET base == Min(effect.deps[4], refetchTrigger)
       IN  /\ base > 0
           /\ refetchTrigger' = refetchTrigger - base
           /\ effect' = [effect EXCEPT !.deps[4] = @ - base]
    /\ UNCHANGED <<hookKind, mounted, props, runs, ui, writer, apiVars>>

\* the component is rendered with new arguments, or calls refetch(), for the
\* last time
InputsStop ==
    /\ mounted
    /\ ~inputsFinal
    /\ inputsFinal' = TRUE
    /\ UNCHANGED <<feed, hist, apr, vaultApr, nav, caller, reads, vaultData, hookVars,
                   withdrawTab, depositTab>>

\* the arguments change and refetch() is called only before the inputs are
\* final; the component stays mounted
InputsChange == ~inputsFinal /\ (Rerender \/ Refetch)

\* the fetch in place `id` of the list settles
ResolveAt(id) ==
    /\ id <= Len(runs)
    /\ \E response \in HookResponses(hookKind) : Resolve(id, response)

SettlingNext ==
    \/ InputsChange
    \/ InputsStop
    \/ RunEffect
    \/ FetchResolves

LatencyNext == SettlingNext \/ IntervalTick \/ Forget \/ Renumber

\* the steps the hook takes by itself: React runs a pending effect, a fetch
\* settles
Progress == RunEffect \/ FetchResolves

\* the hook does not stop while it has a step to take
SettlingFairness == WF_vars(Progress)

\* React runs a pending effect, a timer that is not cleared fires, and every
\* single fetch settles
LatencyFairness ==
    /\ WF_vars(RunEffect)
    /\ WF_vars(IntervalTick)
    /\ WF_vars(Forget)
    /\ WF_vars(Renumber)
    /\ \A id \in 1..MaxRuns : WF_vars(ResolveAt(id))

(***************************************************************************)
(* Specifications: the feed is drawn, then the functions are called on it  *)
(***************************************************************************)
\* a hook that is not in use
HookIdle ==
    /\ hookKind = "useNavData"
    /\ mounted = FALSE
    /\ props = [address |-> "", param |-> 1, enabled |-> FALSE]
    /\ refetchTrigger = 0
    /\ effect = [deps |-> NoDeps, run |-> 0]
    /\ runs = <<>>
    /\ ui = [data |-> NoData, isLoading |-> TRUE, error |-> FALSE]
    /\ writer = 0

ApiInit ==
    /\ \E shape \in FeedShapes : feed = FeedOf(shape)
    /\ hist = NoCall
    /\ apr = NoAprCall
    /\ vaultApr = NoVaultAprCall
    /\ nav = NoNavCall
    /\ caller = NoCaller
    /\ PageIdle
    /\ HookIdle

HistCall ==
    /\ ~hist.called
    /\ caller' = NoCaller
    /\ \E c \in HistCalls : fetchSharePriceHistory(c[1], c[2], "data")

HistCallFails ==
    /\ ~hist.called
    /\ caller' = NoCaller
    /\ \E failure \in Failures :
          fetchSharePriceHistory(getTimestampDaysAgo(90), NoLimit, failure)

\* the history fetch as the hook makes it
HookHistCall ==
    /\ ~hist.called
    /\ \E daysAgo \in HookDays, limit \in HookLimits :
          useSharePriceHistory_fetchData(daysAgo, limit, "data")

AprCall ==
    /\ ~apr.called
    /\ \E days \in AprDays : fetchAprData(getTimestampDaysAgo(days), "data")

AprCallFails ==
    /\ ~apr.called
    /\ \E failure \in Failures : fetchAprData(getTimestampDaysAgo(30), failure)

VaultAprCall ==
    /\ ~vaultApr.called
    /\ \E vaultId \in VaultIds, days \in AprDays :
          fetchAprDataForVault(vaultId, getTimestampDaysAgo(days), "data")

VaultAprCallFails ==
    /\ ~vaultApr.called
    /\ \E failure \in Failures :
          fetchAprDataForVault(1, getTimestampDaysAgo(30), failure)

NavCall == ~nav.called /\ fetchNav("data")

NavCallFails == ~nav.called /\ \E failure \in Failures : fetchNav(failure)

HistNext == HistCall \/ HistCallFails \/ HookHistCall

AprNext == AprCall \/ AprCallFails

VaultAprNext == VaultAprCall \/ VaultAprCallFails

NavNext == NavCall \/ NavCallFails

SpecHistory == ApiInit /\ [][HistNext]_vars

SpecApr == ApiInit /\ [][AprNext]_vars

SpecVaultApr == ApiInit /\ [][VaultAprNext]_vars

SpecNav == ApiInit /\ [][NavNext]_vars

\* the fetchers share no state: a behaviour calls one of them
NoneCalled == ~hist.called /\ ~apr.called /\ ~vaultApr.called /\ ~nav.called

ApiNext == NoneCalled /\ (HistNext \/ AprNext \/ VaultAprNext \/ NavNext)

SpecApi == ApiInit /\ [][ApiNext]_vars

\* one hook instance, from its first render on
SpecHooks == HookInit /\ [][HookNext]_vars

\* a hook that polls, with React running the effects of a render and an
\* interval that is not cleared firing after its delay
PollingInit == HookInit /\ hasInterval(hookKind)

SpecPolling ==
    PollingInit /\ [][HookNext]_vars /\ WF_vars(RunEffect) /\ WF_vars(IntervalTick)

\* the vault page alone: no fetcher is called and no data hook is mounted
VaultInit ==
    /\ feed = <<>>
    /\ hist = NoCall
    /\ apr = NoAprCall
    /\ vaultApr = NoVaultAprCall
    /\ nav = NoNavCall
    /\ caller = NoCaller
    /\ HookIdle
    /\ PageIdle

SpecVault == VaultInit /\ [][RenderVault]_vars

\* the withdraw tab alone, opened by a connected wallet
WithdrawInit ==
    /\ feed = <<>>
    /\ hist = NoCall
    /\ apr = NoAprCall
    /\ vaultApr = NoVaultAprCall
    /\ nav = NoNavCall
    /\ caller = NoCaller
    /\ HookIdle
    /\ ReadsIdle
    /\ depositTab = NoDepositTab
    /\ \E d \in WithdrawData : withdrawTab = [NoWithdrawTab EXCEPT !.data = d]

SpecWithdraw == WithdrawInit /\ [][WithdrawNext]_vars

\* the deposit tab alone, opened by a connected wallet
DepositInit ==
    /\ feed = <<>>
    /\ hist = NoCall
    /\ apr = NoAprCall
    /\ vaultApr = NoVaultAprCall
    /\ nav = NoNavCall
    /\ caller = NoCaller
    /\ HookIdle
    /\ ReadsIdle
    /\ withdrawTab = NoWithdrawTab
    /\ \E d \in DepositData : depositTab = [NoDepositTab EXCEPT !.data = d]

SpecDeposit == DepositInit /\ [][DepositNext]_vars

\* a polling hook that runs without end
SpecLatency == PollingInit /\ [][LatencyNext]_vars /\ LatencyFairness

\* the hooks that fetch once per change of their arguments and per refetch()
SettlingHooks == {"useSharePriceHistory", "useAprDataForVault", "useMerklRewards"}

SettlingInit == HookInit /\ hookKind \in SettlingHooks

SpecSettling == SettlingInit /\ [][SettlingNext]_vars /\ SettlingFairness

(***************************************************************************)
(* Reference values the claims are stated with                             *)
(***************************************************************************)
RECURSIVE SumOver(_, _, _)
SumOver(f, lo, hi) ==
    IF lo > hi THEN 0
    ELSE IF lo = hi THEN f[lo]
    ELSE LET mid == (lo + hi) \div 2
         IN  SumOver(f, lo, mid) + SumOver(f, mid + 1, hi)

\* the valid readings of a response taken at one timestamp
ReadingsAt(rows, ts) ==
    SelectSeq(rows, LAMBDA r : r.timestamp = ts /\ r.sharePriceE18 > 0)

ValidTimestamps(rows) ==
    {rows[k].timestamp : k \in {j \in 1..Len(rows) : rows[j].sharePriceE18 > 0}}

\* the point carries the sum of tvl and the mean of sharePrice of the valid
\* readings taken at its own timestamp
ExactAt(rows, p) ==
    LET c == ReadingsAt(rows, p.timestamp)
    IN  /\ Len(c) > 0
        /\ p.tvl = Num(SumOver([k \in 1..Len(c) |-> c[k].tvl], 1, Len(c)), 1, USDC_DECIMALS)
        /\ p.sharePrice =
              Num(SumOver([k \in 1..Len(c) |-> c[k].sharePriceE18], 1, Len(c)),
                  Len(c), PRICE_DECIMALS)

Answered == hist.called /\ hist.ok

\* C2 as stated: for every observation set, also one with more than 200
\* distinct timestamps, each output point's tvl is the exact sum and its
\* sharePrice the exact mean of the valid observations at its timestamp.
C2_ExactForEverySet ==
    Answered => \A i \in 1..Len(hist.series) : ExactAt(hist.rows, hist.series[i])

\* C2 amended: the same, for responses whose valid rows span at most
\* TARGET_CHART_POINTS distinct timestamps (the series is not downsampled).
C2_ExactWhenNotDownsampled ==
    (Answered /\ Cardinality(ValidTimestamps(hist.rows)) <= TARGET_CHART_POINTS)
        => \A i \in 1..Len(hist.series) : ExactAt(hist.rows, hist.series[i])

C2_Witness ==
    /\ Answered
    /\ Cardinality(ValidTimestamps(hist.rows)) = TARGET_CHART_POINTS
    /\ \E i \in 1..Len(hist.series) : Len(ReadingsAt(hist.rows, hist.series[i].timestamp)) > 1
    /\ \E k \in 1..Len(hist.rows) : hist.rows[k].sharePriceE18 <= 0

\* the aggregated points of the last response, oldest first, from the rows alone:
\* one per timestamp that has a valid reading
Grouped == SortAsc(ValidTimestamps(hist.rows))

Downsampled == Answered /\ Len(Grouped) > TARGET_CHART_POINTS

\* unpriced rows of a response rewritten: dropped, changed, added
DropUnpriced(rows) == SelectSeq(rows, LAMBDA r : r.sharePriceE18 > 0)

ChangeUnpriced(rows) ==
    [k \in 1..Len(rows) |->
        IF rows[k].sharePriceE18 > 0 THEN rows[k]
        ELSE [rows[k] EXCEPT !.tvl = @ + 777, !.sharePriceE18 = -1 - @]]

AddUnpriced(rows) ==
    <<[timestamp |-> Now + PauseSecs, tvl |-> 5000, sharePriceE18 |-> 0]>>
        \o (IF Len(rows) = 0 THEN <<>>
            ELSE <<[timestamp |-> rows[1].timestamp, tvl |-> 31, sharePriceE18 |-> -1]>>)
        \o rows
        \o <<[timestamp |-> Now - 366 * 24 * 60 * 60, tvl |-> 1, sharePriceE18 |-> -7]>>

\* C4: the series has at most 200 points and strictly ascending timestamps.
C4_BoundedAscending ==
    hist.called =>
        /\ Len(hist.series) <= TARGET_CHART_POINTS
        /\ \A i \in 1..(Len(hist.series) - 1) :
               hist.series[i].timestamp < hist.series[i + 1].timestamp

\* downsampling ran, every bucket got a point and the last point was clamped
C4_Witness ==
    /\ Downsampled
    /\ Len(hist.series) = TARGET_CHART_POINTS
    /\ (Grouped[Len(Grouped)] - Grouped[1]) % TARGET_CHART_POINTS = 0

C8_OnePointPerTimestamp ==
    (Answered /\ Cardinality(ValidTimestamps(hist.rows)) <= TARGET_CHART_POINTS)
        => LET g == Grouped
           IN  /\ Len(hist.series) = Len(g)
               /\ \A i \in 1..Len(g) : hist.series[i].timestamp = g[i]

\* many rows, few timestamps: more rows than timestamps, and unpriced rows at
\* timestamps of their own
C8_Witness ==
    /\ Answered
    /\ Len(hist.series) = TARGET_CHART_POINTS
    /\ Len(hist.rows) >= 2 * Len(hist.series)
    /\ \E k \in 1..Len(hist.rows) : hist.rows[k].sharePriceE18 <= 0

\* the mean share price of the valid readings at one timestamp
MeanPriceAt(rows, ts) ==
    LET c == ReadingsAt(rows, ts)
    IN  Num(SumOver([k \in 1..Len(c) |-> c[k].sharePriceE18], 1, Len(c)),
            Len(c), PRICE_DECIMALS)

\* the aggregated point of one timestamp, from the rows alone
AggregatedAt(rows, ts) ==
    LET c == ReadingsAt(rows, ts)
    IN  [timestamp |-> ts,
         sharePrice |-> MeanPriceAt(rows, ts),
         tvl |-> Num(SumOver([k \in 1..Len(c) |-> c[k].tvl], 1, Len(c)), 1, USDC_DECIMALS)]

NumMean(f) == NumDiv(NumSum(f, 1, Len(f)), Len(f))

Span(g) == g[Len(g)] - g[1]

\* the least whole number of seconds w with TARGET_CHART_POINTS * w >= span
WholeWidth(span) ==
    CHOOSE w \in 1..span :
        TARGET_CHART_POINTS * w >= span /\ TARGET_CHART_POINTS * (w - 1) < span

ClampedIndex(ts, first, w) ==
    IF (ts - first) \div w > TARGET_CHART_POINTS - 1
    THEN TARGET_CHART_POINTS - 1
    ELSE (ts - first) \div w

\* C5 as stated: 200 buckets of width span / 200 that exactly cover the span:
\* a point at timestamp ts falls into bucket floor((ts - first) * 200 / span),
\* clamped to 199, and every bucket that holds a point yields a point.
C5_ExactlyTargetBuckets ==
    Downsampled =>
        LET g == Grouped
        IN  Len(hist.series) =
                Cardinality({IF ((g[i] - g[1]) * TARGET_CHART_POINTS) \div Span(g)
                                    > TARGET_CHART_POINTS - 1
                             THEN TARGET_CHART_POINTS - 1
                             ELSE ((g[i] - g[1]) * TARGET_CHART_POINTS) \div Span(g) :
                             i \in 1..Len(g)})

\* C5 amended: the bucket width is span / 200 rounded up to whole seconds, so at
\* most 200 buckets cover the span; each point is assigned to bucket
\* floor((timestamp - first) / width) clamped to index 199.
C5_WholeSecondBuckets ==
    Downsampled =>
        LET g == Grouped
            w == WholeWidth(Span(g))
            idx == {ClampedIndex(g[i], g[1], w) : i \in 1..Len(g)}
        IN  /\ Len(hist.series) = Cardinality(idx)
            /\ {(hist.series[i].timestamp - g[1]) \div w : i \in 1..Len(hist.series)} = idx

\* more than 200 timestamps over a span that is no multiple of 200: the width
\* was rounded up and 200 buckets of that width reach beyond the last timestamp
C5_Witness ==
    /\ Downsampled
    /\ Span(Grouped) % TARGET_CHART_POINTS # 0
    /\ TARGET_CHART_POINTS * WholeWidth(Span(Grouped)) > Span(Grouped)

\* the members of bucket k, as aggregated points, oldest first
BucketMembers(g, w, k) ==
    LET ts == SelectSeq(g, LAMBDA t : ClampedIndex(t, g[1], w) = k)
    IN  [j \in 1..Len(ts) |-> AggregatedAt(hist.rows, ts[j])]

\* one point per non-empty bucket and none for an empty one, ascending by
\* bucket index, carrying the means of the bucket's members
OnePointPerBucket(g, w, keys) ==
    /\ Len(hist.series) = Len(keys)
    /\ \A i \in 1..Len(keys) :
          LET m == BucketMembers(g, w, keys[i])
          IN  /\ hist.series[i].sharePrice = NumMean([j \in 1..Len(m) |-> m[j].sharePrice])
              /\ hist.series[i].tvl = NumMean([j \in 1..Len(m) |-> m[j].tvl])

\* C6 as stated: one point per non-empty bucket, in bucket order, with the
\* bucket's means, at timestamp bucketStart + bucketWidth / 2.
C6_PointAtExactMidpoint ==
    Downsampled =>
        LET g == Grouped
            w == WholeWidth(Span(g))
            keys == SortAsc({ClampedIndex(g[i], g[1], w) : i \in 1..Len(g)})
        IN  /\ OnePointPerBucket(g, w, keys)
            /\ \A i \in 1..Len(keys) :
                  2 * (hist.series[i].timestamp - (g[1] + keys[i] * w)) = w

\* C6 amended: the same, at timestamp bucketStart + floor(bucketWidth / 2),
\* bucketWidth being the whole number of seconds of C5.
C6_PointAtWholeMidpoint ==
    Downsampled =>
        LET g == Grouped
            w == WholeWidth(Span(g))
            keys == SortAsc({ClampedIndex(g[i], g[1], w) : i \in 1..Len(g)})
        IN  /\ OnePointPerBucket(g, w, keys)
            /\ \A i \in 1..Len(keys) :
                  /\ hist.series[i].timestamp >= g[1] + keys[i] * w
                  /\ 2 * (hist.series[i].timestamp - (g[1] + keys[i] * w)) \in {w - 1, w}

\* buckets of odd width, some of them empty, some with several members
C6_Witness ==
    /\ Downsampled
    /\ WholeWidth(Span(Grouped)) % 2 = 1
    /\ WholeWidth(Span(Grouped)) > 1
    /\ Len(hist.series) < TARGET_CHART_POINTS
    /\ \E k \in 1..Len(hist.rows) : hist.rows[k].sharePriceE18 <= 0

\* unpriced snapshots added to the rows handed to averageAtMostRecentTimestamp:
\* newer than every row, at the newest row's timestamp, older than every row
AddUnpricedSnapshots(rows) ==
    <<[timestamp |-> Now + PauseSecs, sharePriceE18 |-> 0],
      [timestamp |-> Now + PauseSecs, sharePriceE18 |-> -1]>>
        \o (IF Len(rows) = 0 THEN <<>>
            ELSE <<[timestamp |-> rows[1].timestamp, sharePriceE18 |-> 0],
                   [timestamp |-> rows[1].timestamp, sharePriceE18 |-> -3],
                   [timestamp |-> rows[1].timestamp, sharePriceE18 |-> 0]>>)
        \o rows
        \o <<[timestamp |-> Now - 366 * 24 * 60 * 60, sharePriceE18 |-> -7]>>

\* C3: rows with sharePriceE18 <= 0 never influence an output: the series of
\* fetchSharePriceHistory and the snapshot of averageAtMostRecentTimestamp are
\* the same with such rows dropped from, changed in or added to the rows.
C3_UnpricedRowsIgnored ==
    /\ Answered =>
          /\ historySeries(DropUnpriced(hist.rows), hist.startTs) = hist.series
          /\ historySeries(ChangeUnpriced(hist.rows), hist.startTs) = hist.series
          /\ historySeries(AddUnpriced(hist.rows), hist.startTs) = hist.series
    /\ (apr.called /\ apr.ok) =>
          /\ averageAtMostRecentTimestamp(AddUnpricedSnapshots(apr.rows.latest))
                = apr.latest
          /\ historicalOf(AddUnpricedSnapshots(apr.rows.historical),
                          AddUnpricedSnapshots(apr.rows.earliest)) = apr.historical

\* a downsampled series computed from rows some of which are unpriced
C3_Witness ==
    /\ Downsampled
    /\ DropUnpriced(hist.rows) # hist.rows
    /\ Len(hist.series) > 1

\* the snapshot averageAtMostRecentTimestamp(rows) must return: among the (up
\* to) 5 most recent distinct timestamps of the valid rows the one with the
\* most readings, the newest of those tied, with the mean of its readings
Recent5(rows) ==
    LET T == ValidTimestamps(rows)
    IN  {t \in T : Cardinality({u \in T : u > t}) < 5}

IsMostComplete(rows, snapshot) ==
    IF ValidTimestamps(rows) = {} THEN snapshot = NULL
    ELSE /\ snapshot # NULL
         /\ snapshot.timestamp \in Recent5(rows)
         /\ \A u \in Recent5(rows) :
               LET cu == Len(ReadingsAt(rows, u))
                   cs == Len(ReadingsAt(rows, snapshot.timestamp))
               IN  cu < cs \/ (cu = cs /\ u <= snapshot.timestamp)
         /\ snapshot.sharePrice = MeanPriceAt(rows, snapshot.timestamp)

\* C9: averageAtMostRecentTimestamp returns the most complete of the 5 most
\* recent timestamps, the newest of those tied, with the mean of its readings.
C9_MostCompleteOfRecent5 ==
    (apr.called /\ apr.ok) =>
        /\ IsMostComplete(apr.rows.latest, apr.latest)
        /\ IsMostComplete(apr.rows.historical,
                          averageAtMostRecentTimestamp(apr.rows.historical))
        /\ IsMostComplete(apr.rows.earliest,
                          averageAtMostRecentTimestamp(apr.rows.earliest))

\* the spec's example: counts 3, 5, 2, 5, 1 newest to oldest select the 2nd newest
C9_Witness ==
    /\ apr.called /\ apr.ok
    /\ LET ts == Reverse(SortAsc(ValidTimestamps(apr.rows.latest)))
       IN  /\ Len(ts) = 5
           /\ [i \in 1..5 |-> Len(ReadingsAt(apr.rows.latest, ts[i]))] = <<3, 5, 2, 5, 1>>
           /\ apr.latest.timestamp = ts[2]

\* the feed has priced readings, none of them at or before the lookback boundary
FallsBack ==
    /\ apr.called /\ apr.ok
    /\ apr.rows.historical = <<>>
    /\ ValidTimestamps(feed) # {}

\* C10: when no valid reading exists at or before the lookback boundary, the
\* historical snapshot is the earliest timestamp that has a valid reading in
\* the feed, with the mean of the readings at that timestamp.
C10_FallbackIsEarliest ==
    FallsBack =>
        LET first == CHOOSE t \in ValidTimestamps(feed) :
                        \A u \in ValidTimestamps(feed) : t <= u
        IN  /\ apr.historical # NULL
            /\ apr.historical.timestamp = first
            /\ apr.historical.sharePrice = MeanPriceAt(feed, first)

\* C1: in every data hook the result of a superseded fetch is never written
\* into the hook's state: outside the effect itself, data, isLoading and error
\* change only when the most recently started fetch completes.
C1_OnlyLatestFetchWrites ==
    [][(ui' # ui /\ effect' = effect)
          => (writer' = Len(runs) /\ writer' # writer /\ ~runs[writer'].cancelled)]_vars

\* a superseded fetch resolved and was discarded; a newer one wrote its result
C1_Witness ==
    \E id \in 1..Len(runs) :
        /\ runs[id].settled /\ ~runs[id].wrote
        /\ ui.data.by > id
        /\ writer = ui.data.by

\* the priced rows of the feed at or before the boundary the call was made with
AtOrBefore(fromTimestamp) ==
    SelectSeq(feed, LAMBDA r : r.sharePriceE18 > 0 /\ r.timestamp <= fromTimestamp)

\* the historical snapshot was selected in the lookback window, not by the fallback
NotFallenBack == apr.called /\ apr.ok /\ apr.rows.historical # <<>>

\* the lookback horizon of the call in seconds: the hook passes
\* getTimestampDaysAgo(daysAgo) = Now - daysAgo * 86400
LookbackSecs == Now - apr.fromTimestamp

\* C11 as stated: the non-fallback historical snapshot lies at or before the
\* timestamp of the selected latest snapshot minus the lookback horizon.
C11_BoundaryFromLatest ==
    NotFallenBack => apr.historical.timestamp <= apr.latest.timestamp - LookbackSecs

\* C11 amended: the non-fallback historical snapshot is selected among the
\* timestamps at or before the clock's time minus the lookback horizon (the
\* fromTimestamp of the call), whenever the feed has a priced row there.
C11_BoundaryFromNow ==
    (apr.called /\ apr.ok) =>
        LET old == AtOrBefore(apr.fromTimestamp)
        IN  /\ (old # <<>>) = (apr.rows.historical # <<>>)
            /\ old # <<>> =>
                  /\ apr.historical.timestamp <= Now - LookbackSecs
                  /\ apr.historical.timestamp \in Recent5(old)

\* a lagging feed: the snapshot selected lies inside the lookback horizon
\* measured from the latest snapshot
C11_Witness ==
    /\ NotFallenBack
    /\ apr.latest.timestamp < Now
    /\ apr.historical.timestamp > apr.latest.timestamp - LookbackSecs
    /\ apr.historical.timestamp <= apr.fromTimestamp

\* the degenerate inputs of the APR formula: a snapshot is absent, the
\* historical price is not positive, or no time has elapsed
CannotCompute(latest, historical) ==
    \/ latest = NULL
    \/ historical = NULL
    \/ historical.sharePrice.n <= 0
    \/ latest.timestamp <= historical.timestamp

\* a snapshot taken before `snapshot` whose price is n / 1e18
PricedBefore(snapshot, n) ==
    [timestamp |-> snapshot.timestamp - SNAPSHOT_INTERVAL_SECS,
     sharePrice |-> Scaled(n, PRICE_DECIMALS)]

\* the result of one of the two APR fetchers is null where it has to be, and
\* where it is not null the elapsed time it divides by is positive
NullWhenDegenerate(call) ==
    call.called =>
        /\ call.outcome = "resolved"
        /\ CannotCompute(call.latest, call.historical) => call.aprPercent = NULL
        /\ call.aprPercent # NULL => call.aprPercent.years.n > 0
        /\ (\A k \in 1..Len(feed) : feed[k].sharePriceE18 <= 0) =>
              call.latest = NULL /\ call.historical = NULL /\ call.aprPercent = NULL

\* C12: fetchAprData and fetchAprDataForVault return aprPercent = null, without
\* throwing and without dividing by zero, when there is no observation, all
\* prices are zero, a snapshot is absent, the historical price is <= 0, or
\* latest.timestamp <= historical.timestamp.
C12_NullWhenDegenerate ==
    /\ NullWhenDegenerate(apr)
    /\ NullWhenDegenerate(vaultApr)
    /\ apr.latest # NULL =>
          /\ aprPercentOf(apr.latest, PricedBefore(apr.latest, 0)) = NULL
          /\ aprPercentOf(apr.latest, PricedBefore(apr.latest, -1)) = NULL
    /\ vaultApr.latest # NULL =>
          /\ vaultAprPercentOf(vaultApr.latest, PricedBefore(vaultApr.latest, 0)) = NULL
          /\ vaultAprPercentOf(vaultApr.latest, PricedBefore(vaultApr.latest, -1)) = NULL

\* latest and historical coincide after the fallback
C12_Witness ==
    /\ apr.called /\ apr.ok
    /\ apr.rows.historical = <<>>
    /\ apr.latest # NULL
    /\ apr.historical = apr.latest
    /\ Cardinality(ValidTimestamps(feed)) > 1

\* (p1 / p0 - 1) * 100 / ((t1 - t0) / (365.25 * 86400)) as the two terms of the
\* quotient: the gain in percent and the elapsed time in years
ExpectedApr(latest, historical) ==
    LET p1 == latest.sharePrice
        p0 == historical.sharePrice
    IN  [gain |-> Num(p1.n * p0.d - p0.n * p1.d, p0.n * p1.d, -2),
         years |-> Num((latest.timestamp - historical.timestamp) * 4, 1461 * 86400, 0)]

\* the result of an APR fetcher for a pair it can compute with
FormulaHolds(call) ==
    (call.called /\ call.ok /\ ~CannotCompute(call.latest, call.historical)) =>
        /\ call.aprPercent = ExpectedApr(call.latest, call.historical)
        /\ call.aprPercent = aprPercentOf(call.latest, call.historical)
        /\ call.aprPercent = vaultAprPercentOf(call.latest, call.historical)
        /\ (call.aprPercent.gain.n > 0) =
              (call.latest.sharePrice.n * call.historical.sharePrice.d
                  > call.historical.sharePrice.n * call.latest.sharePrice.d)

\* C13: for the same pair latest = {t1, p1}, historical = {t0, p0} with p0 > 0
\* and t1 > t0 the factory path and the single-vault path return the same
\* aprPercent, (p1/p0 - 1) * 100 / ((t1 - t0) / (365.25 * 86400)), positive
\* exactly when p1 > p0.
C13_SameFormula == FormulaHolds(apr) /\ FormulaHolds(vaultApr)

\* the spec's example on the single-vault path: 1.00 to 1.02 in 30 days is 24.35
C13_Witness ==
    /\ vaultApr.called /\ vaultApr.ok
    /\ vaultApr.aprPercent # NULL
    /\ vaultApr.latest.sharePrice = Scaled(1020, PRICE_DECIMALS)
    /\ vaultApr.historical.sharePrice = Scaled(1000, PRICE_DECIMALS)
    /\ vaultApr.latest.timestamp - vaultApr.historical.timestamp = 30 * 86400
    /\ vaultApr.aprPercent.gain.n * 100 * vaultApr.aprPercent.years.d * 100
          = vaultApr.aprPercent.gain.d * vaultApr.aprPercent.years.n * 2435

\* the valid readings of one vault in the feed
VaultReadings(vaultId) ==
    SelectSeq(feed, LAMBDA r : r.vault = vaultId /\ r.sharePriceE18 > 0)

\* the snapshot is exactly the reading of the vault taken at timestamp ts
IsReading(snapshot, vaultId, ts) ==
    /\ snapshot # NULL
    /\ snapshot.timestamp = ts
    /\ \E k \in 1..Len(feed) :
          /\ feed[k].vault = vaultId /\ feed[k].timestamp = ts
          /\ snapshot.sharePrice = Scaled(feed[k].sharePriceE18, PRICE_DECIMALS)
          /\ feed[k].sharePriceE18 > 0

\* C14: fetchAprDataForVault takes as latest the most recent valid reading of
\* the vault and as historical its most recent valid reading at or before the
\* lookback boundary or, if there is none, its earliest valid reading; the
\* snapshots are single readings, not averages.
C14_SingleReadings ==
    (vaultApr.called /\ vaultApr.ok) =>
        LET T == ValidTimestamps(VaultReadings(vaultApr.vaultId))
            old == {t \in T : t <= vaultApr.fromTimestamp}
        IN  IF T = {} THEN vaultApr.latest = NULL /\ vaultApr.historical = NULL
            ELSE /\ IsReading(vaultApr.latest, vaultApr.vaultId,
                              CHOOSE t \in T : \A u \in T : u <= t)
                 /\ IsReading(vaultApr.historical, vaultApr.vaultId,
                              IF old # {} THEN CHOOSE t \in old : \A u \in old : u <= t
                              ELSE CHOOSE t \in T : \A u \in T : t <= u)

\* the fallback was taken for a vault that has readings at several timestamps,
\* in a feed where another vault reports at the same timestamps
C14_Witness ==
    /\ vaultApr.called /\ vaultApr.ok
    /\ vaultApr.rows.historical = <<>>
    /\ Cardinality(ValidTimestamps(VaultReadings(vaultApr.vaultId))) > 2
    /\ vaultApr.historical.timestamp < vaultApr.latest.timestamp
    /\ Len(ReadingsAt(feed, vaultApr.historical.timestamp)) > 1

\* C15: fetchNav returns the snapshot at the maximum timestamp T among the valid
\* (sharePriceE18 > 0) readings of the feed: timestamp T, the sum of tvl and the
\* mean of sharePrice over the valid readings at T; rows priced <= 0, at T or
\* later, do not change T.
C15_NavAtNewestValid ==
    (nav.called /\ nav.ok /\ ValidTimestamps(feed) # {}) =>
        LET T == CHOOSE t \in ValidTimestamps(feed) : \A u \in ValidTimestamps(feed) : u <= t
        IN  /\ nav.data # NULL
            /\ nav.data.timestamp = T
            /\ nav.data.totalTvl = AggregatedAt(feed, T).tvl
            /\ nav.data.averageSharePrice = MeanPriceAt(feed, T)

\* C16: when the feed has no valid reading fetchNav returns null, and every
\* NavData it returns is computed from at least one valid reading: the sum and
\* the mean over the valid readings at its timestamp.
C16_NullOrFromValidReadings ==
    nav.called =>
        /\ ValidTimestamps(feed) = {} => nav.data = NULL
        /\ nav.data # NULL =>
              /\ Len(ReadingsAt(feed, nav.data.timestamp)) > 0
              /\ nav.data.totalTvl = AggregatedAt(feed, nav.data.timestamp).tvl
              /\ nav.data.averageSharePrice = MeanPriceAt(feed, nav.data.timestamp)

\* a feed that has rows, none of them priced
C16_Witness ==
    /\ nav.called /\ nav.ok
    /\ Len(nav.rows) > 1
    /\ ValidTimestamps(feed) = {}
    /\ nav.data = NULL

\* a call that was answered by a failure
Failed(call) == call.called /\ call.response \in Failures

Polling == mounted /\ ~skipsFetch(props) /\ effect.run > 0

\* the interval of the current effect is running and every other one is cleared
OneIntervalRunning ==
    hasInterval(hookKind) =>
        \A id \in 1..Len(runs) :
            IF id = effect.run
            THEN runs[id].timer = "active" /\ ~runs[id].cancelled /\ mounted
            ELSE runs[id].timer = "cleared" /\ runs[id].cancelled

\* the effect has run with the arguments and trigger of the last render
UpToDate == effect.deps = depsOf(props, refetchTrigger)

\* the hook polls, nothing is pending, and the interval may still tick
AwaitingTick ==
    hasInterval(hookKind) /\ Polling /\ UpToDate /\ refetchTrigger < MaxRefetch

\* a tick, refetch() or new arguments have made the effect's dependencies stale
AwaitingFetch ==
    mounted /\ ~skipsFetch(props) /\ ~UpToDate /\ Len(runs) < MaxRuns

\* C19: in useAprData and useNavData, while the hook is mounted and enabled a
\* new fetch is started after every interval: the tick always comes, and the
\* effect that then re-runs starts a fetch. Once the hook is unmounted or
\* disabled its interval is cleared: no tick comes, no fetch is started and no
\* fetch completion changes the hook's state.
C19_PollsUntilTornDown ==
    /\ []OneIntervalRunning
    /\ [][/\ Len(runs') > Len(runs) => (mounted /\ ~skipsFetch(props))
          /\ ~mounted => refetchTrigger' = refetchTrigger
          /\ (effect.run = 0 /\ effect' = effect) => ui' = ui
          /\ (mounted' /\ effect' # effect /\ ~skipsFetch(props))
                => (Len(runs') = Len(runs) + 1 /\ effect'.run = Len(runs'))]_vars
    /\ []<>~AwaitingTick
    /\ []<>~AwaitingFetch

\* an interval tick started a second fetch, and the hook was unmounted while
\* that fetch was in flight
C19_Witness ==
    /\ hasInterval(hookKind)
    /\ ~mounted
    /\ Len(runs) > 1
    /\ refetchTrigger > 0
    /\ ~runs[Len(runs)].settled
    /\ runs[Len(runs)].timer = "cleared"


\* C20: the row limit sent with the history query is the caller's limit when
\* one is given (0 included); otherwise it is five rows for every started
\* 40 seconds of the requested window (daysAgo * 86400 in the hook, now minus
\* fromTimestamp in a direct call), lowered to 25000 when that is more, so
\* without an explicit limit it never exceeds 25000.
GivenLimit == IF caller.hook THEN caller.limit ELSE hist.limit

WindowSeconds == IF caller.hook THEN caller.daysAgo * 86400 ELSE Now - hist.startTs

\* `sent` is 5 * ceil(WindowSeconds / 40): WindowSeconds lies in the last of
\* sent / 5 periods of 40 seconds
CoversWindow(sent) ==
    /\ sent % 5 = 0
    /\ 40 * ((sent \div 5) - 1) < WindowSeconds
    /\ WindowSeconds <= 40 * (sent \div 5)

C21_ZeroWithoutVault ==
    ~reads.userVaultAddress =>
        /\ vaultData.totalAssets = 0
        /\ vaultData.totalSupply = 0
        /\ vaultData.sharePrice = 0
        /\ vaultData.currentLTV = 0
        /\ vaultData.unlockInterval = 0
        /\ vaultData.lastKuruDepositTime = 0
        /\ vaultData.userShares = Undefined
        /\ vaultData.userQuoteBalance = Undefined
        /\ vaultData.userQuoteAllowance = Undefined
        /\ ~vaultData.isLoading


\* C22: in useAprData and useNavData, once the inputs have stopped changing
\* and with every started fetch settling, the hook eventually holds a fetched
\* result with isLoading false, whatever the latency of a fetch is relative to
\* the interval.
C22_EventuallyPublishes ==
    (inputsFinal /\ hasInterval(hookKind) /\ ~skipsFetch(props))
        ~> (~ui.isLoading /\ ui.data.value # "initial")


\* the hook shows the result of the fetch it started last
ShowsLastFetch ==
    /\ ~ui.isLoading
    /\ Len(runs) > 0
    /\ runs[Len(runs)].wrote
    /\ ui.data.by = Len(runs)

\* the effect that is pending, if any, can still start its fetch
CanStillFetch == UpToDate \/ Len(runs) < MaxRuns

\* C23: in useSharePriceHistory, useAprDataForVault and useMerklRewards, once
\* the inputs have stopped changing and refetch() is called no more, and with
\* the fetches settling, the hook comes to show the result of the fetch it
\* started last with isLoading false, and keeps showing it; a hook that ends
\* disabled or without an address comes to isLoading false.
C23_SettlesOnLastFetch ==
    /\ []<>(/\ (inputsFinal /\ hookKind \in SettlingHooks /\ ~skipsFetch(props)
                   /\ CanStillFetch) => ShowsLastFetch
            /\ (inputsFinal /\ hookKind \in SettlingHooks /\ skipsFetch(props))
                   => ~ui.isLoading)
    /\ [][(inputsFinal /\ ShowsLastFetch /\ UpToDate)
            => (~ui'.isLoading /\ ui'.data = ui.data)]_vars

\* the arguments changed while a fetch was in flight; the inputs are final and
\* the hook shows the result of the later fetch
C23_Witness ==
    /\ inputsFinal
    /\ hookKind \in SettlingHooks
    /\ Len(runs) > 1
    /\ runs[1].cancelled /\ ~runs[1].wrote
    /\ ShowsLastFetch


\* a fetch of the hook is in flight and its result would still be written
FetchOutstanding ==
    \E id \in 1..Len(runs) : ~runs[id].settled /\ ~runs[id].cancelled

\* C24: in useMerklCampaignApr isLoading is false whenever no uncancelled
\* fetch is outstanding, whatever the changes of campaignAddress and chainId
\* were, also when campaignAddress became undefined while a fetch was in flight.
C24_LoadingOnlyWhileFetching ==
    (hookKind = "useMerklCampaignApr" /\ mounted /\ ~FetchOutstanding)
        => ~ui.isLoading


\* the fetches of the instance whose interval has not been cleared, and those
\* whose closure still has cancelled = false
ActiveTimers == {id \in 1..Len(runs) : runs[id].timer = "active"}

Uncancelled == {id \in 1..Len(runs) : ~runs[id].cancelled}

\* C25: in useAprData and useNavData at most one interval timer of a hook
\* instance is active and at most one of its fetches is uncancelled, in every
\* reachable state.
C25_OneTimerOneFetch ==
    hasInterval(hookKind) =>
        /\ Cardinality(ActiveTimers) <= 1
        /\ Cardinality(Uncancelled) <= 1

\* after a tick or refetch() and a change of arguments the third fetch is the
\* only uncancelled one and its interval the only one running
C25_Witness ==
    /\ hasInterval(hookKind)
    /\ Len(runs) > 2
    /\ refetchTrigger > 0
    /\ effect.deps[1] # "" /\ effect.deps[3]
    /\ ActiveTimers = {Len(runs)}
    /\ Uncancelled = {Len(runs)}


\* the two snapshots of a returned AprData are in the order of time
InOrder(call) ==
    (call.called /\ call.latest # NULL /\ call.historical # NULL)
        => call.historical.timestamp <= call.latest.timestamp

\* C26: every AprData returned by fetchAprData or fetchAprDataForVault with
\* both snapshots non-null has historical.timestamp <= latest.timestamp,
\* whatever feed the three row sets are drawn from.
C26_HistoricalNotAfterLatest == InOrder(apr) /\ InOrder(vaultApr)

\* the factory's latest snapshot is not the newest block of the feed, because
\* an older block of the recent five is more complete, and the historical
\* snapshot lies before it
C26_Witness ==
    /\ apr.called
    /\ apr.latest # NULL
    /\ apr.historical # NULL
    /\ apr.latest.timestamp < feed[1].timestamp
    /\ apr.historical.timestamp < apr.latest.timestamp


\* C27 as stated: when downsampling runs, every emitted timestamp lies within
\* the observed span, from the first to the last aggregated timestamp.
C27_WithinSpan ==
    Downsampled =>
        LET g == Grouped
        IN  \A i \in 1..Len(hist.series) :
                /\ g[1] <= hist.series[i].timestamp
                /\ hist.series[i].timestamp <= g[Len(g)]

\* C27 amended: when downsampling runs, every emitted timestamp is at least
\* the first aggregated timestamp plus half a bucket width, and at most the
\* last aggregated timestamp plus half a bucket width (both halves rounded
\* down): the midpoint of the last bucket can lie after the last observation.
C27_WithinSpanPlusHalfWidth ==
    Downsampled =>
        LET g == Grouped
            half == WholeWidth(Span(g)) \div 2
        IN  \A i \in 1..Len(hist.series) :
                /\ g[1] + half <= hist.series[i].timestamp
                /\ hist.series[i].timestamp <= g[Len(g)] + half

\* the last emitted timestamp lies after the last aggregated timestamp
C27_Witness ==
    /\ Downsampled
    /\ hist.series[Len(hist.series)].timestamp > Grouped[Len(Grouped)]


\* a withdraw call is handed to the wallet in this step
WithdrawSubmitted == Len(withdrawTab'.calls) > Len(withdrawTab.calls)

\* an earlier withdraw transaction was broadcast and has no receipt yet
WithdrawAwaitingConfirmation ==
    \E i \in 1..Len(withdrawTab.calls) : withdrawTab.calls[i].status = "pending"

\* C28: a withdraw is submitted only when the entered share amount is above
\* zero and at most the user's share balance, the vault is not locked as of
\* the last render (a deposit time that is unknown or zero counts as no
\* deposit, as in the code), and no earlier withdraw is awaiting confirmation.
C28_WithdrawGuard ==
    [][WithdrawSubmitted =>
          /\ inputShares(withdrawTab) > 0
          /\ inputShares(withdrawTab) <= userShares(withdrawTab)
          /\ (withdrawTab.data.lastDepositTime \notin {Undefined, 0}
                 => withdrawTab.renderedAt
                        >= withdrawTab.data.lastDepositTime
                               + withdrawTab.data.unlockInterval)
          /\ ~WithdrawAwaitingConfirmation]_vars

\* a deposit call, or any call, is handed to the wallet in this step
DepositSubmitted ==
    /\ Len(depositTab'.calls) > Len(depositTab.calls)
    /\ depositTab'.calls[Len(depositTab'.calls)].fn = "deposit"

ApproveSubmitted ==
    /\ Len(depositTab'.calls) > Len(depositTab.calls)
    /\ depositTab'.calls[Len(depositTab'.calls)].fn = "approve"

\* C29: a deposit is submitted only when the entered amount is above zero, at
\* most the user's quote-token balance, and covered by the quote-token
\* allowance; while the allowance is below the amount, only approve is submitted.
C29_ApproveBeforeDeposit ==
    [][/\ DepositSubmitted =>
             /\ inputAmount(depositTab) > 0
             /\ depositTab.data.userQuoteBalance # Undefined
             /\ inputAmount(depositTab) <= depositTab.data.userQuoteBalance
             /\ depositTab.data.userQuoteAllowance # Undefined
             /\ depositTab.data.userQuoteAllowance >= inputAmount(depositTab)
       /\ (/\ DepositSubmitted \/ ApproveSubmitted
           /\ depositTab.data.userQuoteAllowance # Undefined
           /\ depositTab.data.userQuoteAllowance < inputAmount(depositTab))
             => ApproveSubmitted]_vars

====
